---- MODULE Spec2Model ----
(***************************************************************************)
(* Runtime-error monitor of Argus: the monitor-runtime route (POST), the   *)
(* monitoring session (monitorSandbox) and the four page listeners         *)
(* (setupErrorListeners).  One session is modelled from the arrival of the *)
(* request to the response; the page's signals are fired by the            *)
(* environment whenever the session is suspended at an await and the       *)
(* browser is alive.  Entry ids (nanoid), timestamps and message texts are *)
(* opaque to every decision of the code and are left out of the entries.   *)
(*                                                                         *)
(* Runtime-error fixer: the fix-runtime-errors route (POST) and            *)
(* fixRuntimeErrors, under the specification SpecFix; the fixer's path     *)
(* normalization alone, over all bounded paths, under SpecNormalize.  A    *)
(* path is the sequence of its tokens (separators and words); file         *)
(* contents and prompt texts are left out.                                 *)
(***************************************************************************)
EXTENDS Integers, Sequences, FiniteSets, TLC

\* Bound on the number of signals the page fires in one session.
MaxSignals == 2

\* Bound on the number of errors of a fix request.
MaxErrors == 2

\* Bound on the number of tokens of a path given to the normalization.
MaxPathLen == 4

\* Bound on the number of fix requests served one after the other.
MaxRequests == 2

\* Bound on the number of pieces of a text given to parseErrorSource.
MaxFragments == 3

\* RuntimeErrorType
AllTypes ==
    {"console-error", "console-warning", "network-404", "network-500",
     "exception", "network-other"}

\* The allow-lists (config.errorTypes) a session is run with; {} is the
\* absent or empty list.
AllowLists ==
    { {},
      AllTypes,
      {"console-error", "exception"},
      {"network-404", "network-500"},
      {"console-warning", "network-other"} }

\* msg.type() of a console message
ConsoleLevels == {"error", "warning", "log"}

\* response.status()
Statuses == {200, 400, 404, 500, 503}

\* The request body's fields: "" is a missing field.
SandboxUrls == {"", "http://x"}
SandboxIds == {"", "s1"}

\* url of a response or of a failed request
SignalUrl == "/missing.js"

NoBrowser == "null"
TheBrowser == "browser"

VARIABLES
    body,          \* parsed request body [sandboxUrl, sandboxId]
    errorTypes,    \* config.errorTypes
    pc,            \* position of the request's flow
    browser,       \* monitorSandbox's local `browser`
    browserAlive,  \* the browser process exists
    listeners,     \* events of the page a listener is registered for
    navStarted,    \* page.goto has been called
    errors,        \* monitorSandbox's local `errors`
    warnings,      \* monitorSandbox's local `warnings`
    result,        \* value monitorSandbox returned
    fault,         \* message of the error monitorSandbox threw
    response,      \* the route's response
    \* history of the run
    acquired,      \* chromium.launch resolved
    closeCalls,    \* number of browser.close() calls made
    navOutcome,    \* "pending" | "ok" | "failed"
    waitOutcome,   \* "none" | "ok" | "rejected"
    evalOutcome,   \* "none" | "true" | "false" | "threw"
    nSig,          \* number of signals fired
    lastSig,       \* the last signal fired
    lost,          \* number of signals fired with no listener registered
    sigPc          \* position of the flow when the last signal fired

\* The fix-runtime-errors route and fixRuntimeErrors
VARIABLES
    fxBody,        \* parsed request body [sandboxId, errors, focusFiles]
    fxProvider,    \* sandboxManager has a provider for the sandbox
    fxPc,          \* position of the fix request's flow
    relevantFiles, \* the Set of the last fixRuntimeErrors call, in
                   \* insertion order
    reads,         \* paths given to provider.readFile, in call order
    readFailed,    \* paths whose read threw
    fileContexts,  \* paths of fixRuntimeErrors' fileContexts
    genCalls,      \* number of streamText calls made
    fxFault,       \* message of the error fixRuntimeErrors threw
    fxCalls,       \* number of fix requests received
    fxResponse     \* the route's response

\* The path normalization applied repeatedly to one path
VARIABLES
    normIn,        \* the path
    normOut        \* the results of the applications so far

\* Two monitoring sessions running in one process
VARIABLES
    heap,          \* the arrays created so far: array -> its entries
    nextArray,     \* the next array to be created
    nextBrowser,   \* the next browser chromium.launch starts
    openBrowsers,  \* the browsers started and not closed
    sPc,           \* position of each invocation
    sErrors,       \* `errors` of each invocation (an array; 0 before the call)
    sWarnings,     \* `warnings` of each invocation
    sBrowser,      \* `browser` of each invocation (0 for null)
    sListener,     \* the page and arrays held by each invocation's callbacks
    sResult,       \* what each invocation returned
    sLaunched,     \* history: the browsers each invocation launched
    sClosed,       \* history: the browsers each invocation called close on
    sEvents        \* number of page events of each invocation's page

\* One signal, of any text, given to its listener
VARIABLES
    parseSig,      \* the signal
    parseOut,      \* what the listener appended to errors and to warnings
    parsePc        \* "idle" | "fired" | "handled"

monitorVars ==
    <<body, errorTypes, pc, browser, browserAlive, listeners, navStarted,
      errors, warnings, result, fault, response, acquired, closeCalls,
      navOutcome, waitOutcome, evalOutcome, nSig, lastSig, lost, sigPc>>

fixVars ==
    <<fxBody, fxProvider, fxPc, relevantFiles, reads, readFailed,
      fileContexts, genCalls, fxFault, fxCalls, fxResponse>>

normVars == <<normIn, normOut>>

pairVars ==
    <<heap, nextArray, nextBrowser, openBrowsers, sPc, sErrors, sWarnings,
      sBrowser, sListener, sResult, sLaunched, sClosed, sEvents>>

parseVars == <<parseSig, parseOut, parsePc>>

vars == <<monitorVars, fixVars, normVars, pairVars, parseVars>>

----------------------------------------------------------------------------
\* Entries, signals and results

\* A RuntimeError; an optional field is a set of at most one value.
Entry(type, severity, url, statusCode, stack) ==
    [type |-> type, severity |-> severity, url |-> url,
     statusCode |-> statusCode, stack |-> stack, source |-> {}]

\* A signal of the page; text is msg.text() or error.message, stack is
\* error.stack, a set of at most one text.
Sig(event, level, status, stack, text) ==
    [event |-> event, level |-> level, status |-> status,
     stack |-> stack, text |-> text]

\* Texts of console messages and of exceptions: with a location in
\* parentheses, with a bare file and line, with none.
LocatedText == <<"at", " ", "(", "App.jsx", ":", "42", ":", "15", ")">>

BareText == <<"main.js", ":", "42">>

PlainText == <<"failed">>

Signals ==
    {Sig("console", "error", 0, {}, t) : t \in {LocatedText, PlainText}}
    \cup {Sig("console", "warning", 0, {}, LocatedText),
          Sig("console", "log", 0, {}, PlainText)}
    \cup {Sig("pageerror", "", 0, {LocatedText}, BareText),
          Sig("pageerror", "", 0, {}, BareText),
          Sig("pageerror", "", 0, {}, PlainText)}
    \cup {Sig("response", "", s, {}, <<>>) : s \in Statuses}
    \cup {Sig("requestfailed", "", 0, {}, <<>>)}

NoSig == Sig("none", "", 0, {}, <<>>)

ZeroSummary ==
    [totalErrors |-> 0, consoleErrors |-> 0, networkErrors |-> 0,
     exceptions |-> 0]

\* No value returned yet.
NoResult ==
    [kind |-> "none", success |-> FALSE, hasErrors |-> FALSE,
     errors |-> <<>>, warnings |-> <<>>, summary |-> ZeroSummary,
     aliased |-> FALSE]

NoResponse ==
    [kind |-> "none", status |-> 0, success |-> FALSE, hasErrors |-> FALSE,
     errors |-> <<>>, warnings |-> <<>>, summary |-> ZeroSummary,
     monitoringError |-> {}]

----------------------------------------------------------------------------
\* parseErrorSource.  A text is a sequence of tokens: "(", ")", ":", " " (white
\* space), numbers (runs of digits) and words, a word having none of the
\* characters of the other tokens.

\* The tokens that are runs of digits
Numbers == {"42", "15"}

\* parseInt
ParseInt(tok) == CASE tok = "42" -> 42 [] tok = "15" -> 15

\* The words that end in .js or .jsx
ScriptFiles == {"App.jsx", "main.js"}

\* The places where /\(([^)]+):(\d+):(\d+)\)/ matches t: <<i, j>> for "(" at
\* i and the first group ending at j.
FullMatches(t) ==
    {m \in (1..Len(t)) \X (1..Len(t)) :
        /\ t[m[1]] = "("
        /\ m[2] > m[1]
        /\ \A k \in (m[1] + 1)..m[2] : t[k] # ")"
        /\ m[2] + 5 <= Len(t)
        /\ t[m[2] + 1] = ":"
        /\ t[m[2] + 2] \in Numbers
        /\ t[m[2] + 3] = ":"
        /\ t[m[2] + 4] \in Numbers
        /\ t[m[2] + 5] = ")"}

\* The places where /([^\s]+\.jsx?):(\d+)/ matches t: <<i, j>> for the first
\* group from i to j.
LooseMatches(t) ==
    {m \in (1..Len(t)) \X (1..Len(t)) :
        /\ m[1] <= m[2]
        /\ \A k \in m[1]..m[2] : t[k] # " "
        /\ t[m[2]] \in ScriptFiles
        /\ m[2] + 2 <= Len(t)
        /\ t[m[2] + 1] = ":"
        /\ t[m[2] + 2] \in Numbers}

\* String.match: of the matches ms, the one that starts leftmost, its first
\* group as long as can be.
FirstMatch(ms) ==
    LET i == CHOOSE a \in {m[1] : m \in ms} : \A m \in ms : a <= m[1]
        j == CHOOSE b \in {m[2] : m \in {n \in ms : n[1] = i}} :
                 \A m \in ms : m[1] = i => m[2] <= b
    IN  <<i, j>>

\* A source location: file, and optional line and column.
Source(file, line, column) ==
    [file |-> file, line |-> line, column |-> column]

\* The looser pattern tried first.
parseErrorSource_LooseFirst(errorText) ==
    IF LooseMatches(errorText) # {}
    THEN LET m == FirstMatch(LooseMatches(errorText))
         IN  {Source(SubSeq(errorText, m[1], m[2]),
                     {ParseInt(errorText[m[2] + 2])}, {})}
    ELSE IF FullMatches(errorText) # {}
    THEN LET m == FirstMatch(FullMatches(errorText))
         IN  {Source(SubSeq(errorText, m[1] + 1, m[2]),
                     {ParseInt(errorText[m[2] + 2])},
                     {ParseInt(errorText[m[2] + 4])})}
    ELSE {}

\* parseErrorSource(errorText): the source, or {} for undefined
parseErrorSource(errorText) ==
    IF FullMatches(errorText) # {}
    THEN LET m == FirstMatch(FullMatches(errorText))
         IN  {Source(SubSeq(errorText, m[1] + 1, m[2]),
                     {ParseInt(errorText[m[2] + 2])},
                     {ParseInt(errorText[m[2] + 4])})}
    ELSE IF LooseMatches(errorText) # {}
    THEN LET m == FirstMatch(LooseMatches(errorText))
         IN  {Source(SubSeq(errorText, m[1], m[2]),
                     {ParseInt(errorText[m[2] + 2])}, {})}
    ELSE {}

\* The pieces the texts given to parseErrorSource alone are made of
Fragments ==
    { <<"(", "App.jsx", ":", "42", ":", "15", ")">>,
      <<"(", "App.css", ":", "15", ":", "42", ")">>,
      <<"main.js", ":", "42">>,
      <<"App.css", ":", "42">>,
      <<"(">>, <<")">>, <<":">>, <<" ">>, <<"at">>, <<"15">> }

\* The texts made of at most n pieces
RECURSIVE TextsOf(_)
TextsOf(n) ==
    IF n = 0 THEN {<<>>}
    ELSE LET shorter == TextsOf(n - 1)
         IN  shorter \cup {t \o f : t \in shorter, f \in Fragments}

Texts == TextsOf(MaxFragments)

----------------------------------------------------------------------------
\* setupErrorListeners

shouldCapture(type) ==
    IF errorTypes = {} THEN TRUE ELSE type \in errorTypes

Nothing == [e |-> <<>>, w |-> <<>>]

\* A console warning pushed onto the errors list.
OnConsole_WarningToErrors(sig) ==
    IF sig.level = "error" /\ shouldCapture("console-error")
    THEN [e |-> <<[Entry("console-error", "error", {}, {}, {})
                      EXCEPT !.source = parseErrorSource(sig.text)]>>,
          w |-> <<>>]
    ELSE IF sig.level = "warning" /\ shouldCapture("console-warning")
    THEN [e |-> <<Entry("console-warning", "warning", {}, {}, {})>>,
          w |-> <<>>]
    ELSE Nothing

\* page.on('console')
OnConsole(sig) ==
    IF sig.level = "error" /\ shouldCapture("console-error")
    THEN [e |-> <<[Entry("console-error", "error", {}, {}, {})
                      EXCEPT !.source = parseErrorSource(sig.text)]>>,
          w |-> <<>>]
    ELSE IF sig.level = "warning" /\ shouldCapture("console-warning")
    THEN [e |-> <<>>,
          w |-> <<Entry("console-warning", "warning", {}, {}, {})>>]
    ELSE Nothing

\* error.stack || error.message
StackOrMessage(sig) ==
    IF sig.stack # {} /\ sig.stack # {<<>>}
    THEN CHOOSE t \in sig.stack : TRUE
    ELSE sig.text

\* The exception entry created with severity error.
OnPageError_SeverityError(sig) ==
    IF shouldCapture("exception")
    THEN [e |-> <<[Entry("exception", "error", {}, {},
                         sig.stack)
                      EXCEPT !.source =
                          parseErrorSource(StackOrMessage(sig))]>>,
          w |-> <<>>]
    ELSE Nothing

\* page.on('pageerror')
OnPageError(sig) ==
    IF shouldCapture("exception")
    THEN [e |-> <<[Entry("exception", "critical", {}, {},
                         sig.stack)
                      EXCEPT !.source =
                          parseErrorSource(StackOrMessage(sig))]>>,
          w |-> <<>>]
    ELSE Nothing

\* The server-error test written status > 500.
OnResponse_Above500(sig) ==
    IF sig.status = 404 /\ shouldCapture("network-404")
    THEN [e |-> <<Entry("network-404", "error", {SignalUrl}, {404}, {})>>,
          w |-> <<>>]
    ELSE IF sig.status > 500 /\ shouldCapture("network-500")
    THEN [e |-> <<Entry("network-500", "critical", {SignalUrl},
                        {sig.status}, {})>>,
          w |-> <<>>]
    ELSE IF sig.status >= 400 /\ sig.status < 500 /\ sig.status # 404
    THEN [e |-> <<>>,
          w |-> <<Entry("network-other", "warning", {SignalUrl},
                        {sig.status}, {})>>]
    ELSE Nothing

\* Every 4xx response recorded as a network-404 entry.
OnResponse_Any4xxAs404(sig) ==
    IF sig.status >= 400 /\ sig.status < 500 /\ shouldCapture("network-404")
    THEN [e |-> <<Entry("network-404", "error", {SignalUrl},
                        {sig.status}, {})>>,
          w |-> <<>>]
    ELSE IF sig.status >= 500 /\ shouldCapture("network-500")
    THEN [e |-> <<Entry("network-500", "critical", {SignalUrl},
                        {sig.status}, {})>>,
          w |-> <<>>]
    ELSE Nothing

\* The last branch taking every 4xx response, a 404 with network-404
\* excluded among them.
OnResponse_404FallsThrough(sig) ==
    IF sig.status = 404 /\ shouldCapture("network-404")
    THEN [e |-> <<Entry("network-404", "error", {SignalUrl}, {404}, {})>>,
          w |-> <<>>]
    ELSE IF sig.status >= 500 /\ shouldCapture("network-500")
    THEN [e |-> <<Entry("network-500", "critical", {SignalUrl},
                        {sig.status}, {})>>,
          w |-> <<>>]
    ELSE IF sig.status >= 400 /\ sig.status < 500
    THEN [e |-> <<>>,
          w |-> <<Entry("network-other", "warning", {SignalUrl},
                        {sig.status}, {})>>]
    ELSE Nothing

\* page.on('response')
OnResponse(sig) ==
    IF sig.status = 404 /\ shouldCapture("network-404")
    THEN [e |-> <<Entry("network-404", "error", {SignalUrl}, {404}, {})>>,
          w |-> <<>>]
    ELSE IF sig.status >= 500 /\ shouldCapture("network-500")
    THEN [e |-> <<Entry("network-500", "critical", {SignalUrl},
                        {sig.status}, {})>>,
          w |-> <<>>]
    ELSE IF sig.status >= 400 /\ sig.status < 500 /\ sig.status # 404
    THEN [e |-> <<>>,
          w |-> <<Entry("network-other", "warning", {SignalUrl},
                        {sig.status}, {})>>]
    ELSE Nothing

\* page.on('requestfailed')
OnRequestFailed(sig) ==
    [e |-> <<>>,
     w |-> <<Entry("network-other", "warning", {SignalUrl}, {}, {})>>]

\* What the listener of sig's event appends.
Handle(sig) ==
    CASE sig.event = "console" -> OnConsole(sig)
      [] sig.event = "pageerror" -> OnPageError(sig)
      [] sig.event = "response" -> OnResponse(sig)
      [] sig.event = "requestfailed" -> OnRequestFailed(sig)

\* The events setupErrorListeners registers a listener for.
ListenerEvents == {"console", "pageerror", "response", "requestfailed"}

----------------------------------------------------------------------------
\* monitorSandbox: results

\* The filter keeping severity critical only.
IsCritical_CriticalOnly(e) == e.severity = "critical"

\* The filter of criticalErrors
IsCritical(e) == e.severity = "critical" \/ e.severity = "error"

\* type.startsWith('console-'), type.startsWith('network-') on the closed
\* enumeration RuntimeErrorType
IsConsole(e) == e.type \in {"console-error", "console-warning"}

IsNetwork(e) == e.type \in {"network-404", "network-500", "network-other"}

IsException(e) == e.type = "exception"

\* The total counting the errors list only.
Summary_ErrorsOnly(errs, warns) ==
    [totalErrors |-> Len(errs),
     consoleErrors |-> Cardinality({i \in 1..Len(errs) : IsConsole(errs[i])}),
     networkErrors |-> Cardinality({i \in 1..Len(errs) : IsNetwork(errs[i])}),
     exceptions |-> Cardinality({i \in 1..Len(errs) : IsException(errs[i])})]

\* The category counts taken over both lists.
Summary_BothLists(errs, warns) ==
    LET all == errs \o warns
    IN  [totalErrors |-> Len(all),
         consoleErrors |->
             Cardinality({i \in 1..Len(all) : IsConsole(all[i])}),
         networkErrors |->
             Cardinality({i \in 1..Len(all) : IsNetwork(all[i])}),
         exceptions |->
             Cardinality({i \in 1..Len(all) : IsException(all[i])})]

\* The summary of the success path
Summary(errs, warns) ==
    [totalErrors |-> Len(errs) + Len(warns),
     consoleErrors |-> Cardinality({i \in 1..Len(errs) : IsConsole(errs[i])}),
     networkErrors |-> Cardinality({i \in 1..Len(errs) : IsNetwork(errs[i])}),
     exceptions |-> Cardinality({i \in 1..Len(errs) : IsException(errs[i])})]

\* The result of a session whose navigation succeeded; it holds the
\* session's own two arrays.
SuccessResult(errs, warns) ==
    [kind |-> "success", success |-> TRUE,
     hasErrors |-> Cardinality({i \in 1..Len(errs) : IsCritical(errs[i])}) > 0,
     errors |-> errs, warnings |-> warns,
     summary |-> Summary(errs, warns), aliased |-> TRUE]

\* The error synthesized when page.goto rejects.
NavigationError ==
    Entry("network-other", "critical", {body.sandboxUrl}, {}, {})

\* The failure result carrying what the listeners collected.
NavigationFailureResult_WithCollected ==
    [kind |-> "navFailure", success |-> FALSE, hasErrors |-> TRUE,
     errors |-> Append(errors, NavigationError), warnings |-> warnings,
     summary |-> [totalErrors |-> 1, consoleErrors |-> 0,
                  networkErrors |-> 1, exceptions |-> 0],
     aliased |-> FALSE]

\* The result returned when page.goto rejects.
NavigationFailureResult ==
    [kind |-> "navFailure", success |-> FALSE, hasErrors |-> TRUE,
     errors |-> <<NavigationError>>, warnings |-> <<>>,
     summary |-> [totalErrors |-> 1, consoleErrors |-> 0,
                  networkErrors |-> 1, exceptions |-> 0],
     aliased |-> FALSE]

\* The warning of the content check.
EmptyRootWarning == Entry("console-warning", "warning", {}, {}, {})

----------------------------------------------------------------------------
\* fixRuntimeErrors: paths

\* p starts with pre / ends with suf (String.startsWith, String.endsWith)
StartsWith(p, pre) ==
    Len(p) >= Len(pre) /\ SubSeq(p, 1, Len(pre)) = pre

EndsWith(p, suf) ==
    Len(p) >= Len(suf) /\ SubSeq(p, Len(p) - Len(suf) + 1, Len(p)) = suf

\* p.slice(n)
Slice(p, n) == SubSeq(p, n + 1, Len(p))

\* if (path.startsWith('/')) path = path.slice(1)
StripSlash(p) == IF StartsWith(p, <<"/">>) THEN Slice(p, 1) ELSE p

\* if (path.startsWith('./')) path = path.slice(2)
StripDot(p) == IF StartsWith(p, <<".", "/">>) THEN Slice(p, 2) ELSE p

\* The prefix given to every component file, also to one under src/.
InSourceRoot_Always(p) ==
    IF EndsWith(p, <<".", "jsx">>) \/ EndsWith(p, <<".", "tsx">>)
    THEN <<"src", "/">> \o p
    ELSE p

\* A component file outside src/ is taken to be in src/.
InSourceRoot(p) ==
    IF ~StartsWith(p, <<"src", "/">>)
       /\ (EndsWith(p, <<".", "jsx">>) \/ EndsWith(p, <<".", "tsx">>))
    THEN <<"src", "/">> \o p
    ELSE p

\* The normalization of an error's source.file
Normalize(p) == InSourceRoot(StripDot(StripSlash(p)))

\* The always-relevant files without the stylesheet.
AlwaysRelevant_NoStylesheet ==
    << <<"package", ".", "json">>,
       <<"index", ".", "html">>,
       <<"src", "/", "main", ".", "jsx">> >>

\* package.json, index.html, src/index.css, src/main.jsx
AlwaysRelevant ==
    << <<"package", ".", "json">>,
       <<"index", ".", "html">>,
       <<"src", "/", "index", ".", "css">>,
       <<"src", "/", "main", ".", "jsx">> >>

Range(q) == {q[i] : i \in 1..Len(q)}

\* An add that keeps a value the set holds already.
SetAdd_Duplicates(q, x) == Append(q, x)

\* Set.add: x is appended unless it is in the set already.
SetAdd(q, x) == IF x \in Range(q) THEN q ELSE Append(q, x)

RECURSIVE SetAddAll(_, _)
SetAddAll(q, xs) ==
    IF xs = <<>> THEN q ELSE SetAddAll(SetAdd(q, Head(xs)), Tail(xs))

\* An error's source.file is set and not the empty string.
HasSourceFile(e) == e.file # {} /\ e.file # {<<>>}

\* The extensions of the file-name pattern applied to error.message
MessageExtensions == {"jsx", "tsx", "js", "ts", "css"}

\* error.message.match(/([a-zA-Z0-9_-]+\.(jsx|tsx|js|ts|css))/): the first
\* word followed by a dot and one of the extensions, as a set of at most one
\* file name.  A message is a sequence of words, spaces and dots, none of
\* its words being an extension followed by more letters.
FileMatch(m) ==
    LET at == {i \in 1..(Len(m) - 2) :
                  /\ m[i] \notin {" ", "."}
                  /\ m[i + 1] = "."
                  /\ m[i + 2] \in MessageExtensions}
    IN  IF at = {} THEN {}
        ELSE LET i == CHOOSE k \in at : \A l \in at : k <= l
             IN  {<<m[i], ".", m[i + 2]>>}

\* The file name matched in the message added to the set as well.
AddError_MessageFile(q, e) ==
    LET withSource == IF HasSourceFile(e)
                      THEN SetAdd(q, Normalize(CHOOSE f \in e.file : TRUE))
                      ELSE q
        fileMatch == FileMatch(e.message)
    IN  IF fileMatch # {}
        THEN SetAdd(withSource, CHOOSE f \in fileMatch : TRUE)
        ELSE withSource

\* The body of errors.forEach for one error: the normalized source file is
\* added.  The file name matched in error.message is bound to a local that
\* nothing reads.
AddError(q, e) ==
    LET withSource == IF HasSourceFile(e)
                      THEN SetAdd(q, Normalize(CHOOSE f \in e.file : TRUE))
                      ELSE q
        fileMatch == FileMatch(e.message)
    IN  IF fileMatch # {} THEN withSource ELSE withSource

RECURSIVE AddErrors(_, _)
AddErrors(q, es) ==
    IF es = <<>> THEN q ELSE AddErrors(AddError(q, Head(es)), Tail(es))

\* The set kept from one call to the next.
ResolveFiles_Retained(es, focus) ==
    AddErrors(SetAddAll(SetAddAll(relevantFiles, focus), AlwaysRelevant), es)

\* The always-relevant files added before the focus files.
ResolveFiles_AlwaysFirst(es, focus) ==
    AddErrors(SetAddAll(SetAddAll(<<>>, AlwaysRelevant), focus), es)

\* The working file set of fixRuntimeErrors(errors, provider, focusFiles),
\* built in a Set that is new in every call
ResolveFiles(es, focus) ==
    AddErrors(SetAddAll(SetAddAll(<<>>, focus), AlwaysRelevant), es)

\* An error of a fix request: its optional source.file and its message.
FixError(file, message) == [file |-> file, message |-> message]

\* The errors a fix request is made of.
ErrorPool ==
    { FixError({<<"/", "App", ".", "jsx">>},
               <<"x", " ", "is", " ", "not", " ", "defined">>),
      FixError({<<".", "/", "App", ".", "jsx">>},
               <<"error", " ", "in", " ", "Header", ".", "jsx">>),
      FixError({<<"src", "/", "App", ".", "jsx">>},
               <<"x", " ", "is", " ", "not", " ", "defined">>),
      FixError({<<"/", "App", ".", "css">>},
               <<"x", " ", "is", " ", "not", " ", "defined">>),
      FixError({<<"src", "/", "main", ".", "jsx">>},
               <<"x", " ", "is", " ", "not", " ", "defined">>),
      FixError({<<"App", ".", "tsx">>},
               <<"x", " ", "is", " ", "not", " ", "defined">>),
      FixError({<<>>}, <<"x", " ", "is", " ", "not", " ", "defined">>),
      FixError({}, <<"error", " ", "in", " ", "Header", ".", "jsx">>) }

ErrorLists == UNION {[1..n -> ErrorPool] : n \in 0..MaxErrors}

\* The focusFiles of a fix request; <<>> is the absent list too.
FocusLists ==
    { <<>>,
      << <<"src", "/", "App", ".", "jsx">> >>,
      << <<"src", "/", "main", ".", "jsx">> >>,
      << <<"package", ".", "json">>, <<"vite", ".", "config", ".", "js">>,
         <<"package", ".", "json">> >> }

\* The bodies of a fix request: "" is a missing sandboxId, {} a missing
\* errors field.
FixBodies ==
    [sandboxId : SandboxIds,
     errors : {{}} \cup {{es} : es \in ErrorLists},
     focusFiles : FocusLists]

\* The bodies of a fix request that follows another.
NextBodies ==
    [sandboxId : SandboxIds \ {""},
     errors : {{<<e>>} : e \in ErrorPool},
     focusFiles : {<<>>}]

\* The tokens of the paths given to the normalization alone.
PathTokens == {"/", ".", "src", "App", "jsx", "css"}

Paths == UNION {[1..n -> PathTokens] : n \in 0..MaxPathLen}

NoFixResponse == [kind |-> "none", status |-> 0, error |-> ""]

----------------------------------------------------------------------------
\* Initial states

\* No fix request.
FixIdle ==
    /\ fxBody = [sandboxId |-> "", errors |-> {}, focusFiles |-> <<>>]
    /\ fxProvider = FALSE
    /\ fxPc = "idle"
    /\ relevantFiles = <<>>
    /\ reads = <<>>
    /\ readFailed = {}
    /\ fileContexts = <<>>
    /\ genCalls = 0
    /\ fxFault = ""
    /\ fxCalls = 0
    /\ fxResponse = NoFixResponse

\* No normalization.
NormIdle ==
    /\ normIn = <<>>
    /\ normOut = <<>>

\* The two invocations
Sessions == {1, 2}

\* Arrays an invocation can create: errors, warnings, and the two of the
\* navigation-failure result.
Arrays == 1..(4 * Cardinality(Sessions))

\* An entry, by the invocation whose code created it.
PairEntry(s, origin) == [by |-> s, origin |-> origin]

NoListener == [installed |-> FALSE, browser |-> 0, errors |-> 0, warnings |-> 0]

NoPairResult == [kind |-> "none", errors |-> 0, warnings |-> 0]

\* No pair of invocations.
PairIdle ==
    /\ heap = [a \in Arrays |-> <<>>]
    /\ nextArray = 1
    /\ nextBrowser = 1
    /\ openBrowsers = {}
    /\ sPc = [s \in Sessions |-> "none"]
    /\ sErrors = [s \in Sessions |-> 0]
    /\ sWarnings = [s \in Sessions |-> 0]
    /\ sBrowser = [s \in Sessions |-> 0]
    /\ sListener = [s \in Sessions |-> NoListener]
    /\ sResult = [s \in Sessions |-> NoPairResult]
    /\ sLaunched = [s \in Sessions |-> {}]
    /\ sClosed = [s \in Sessions |-> {}]
    /\ sEvents = [s \in Sessions |-> 0]

\* No signal.
ParseIdle ==
    /\ parseSig = NoSig
    /\ parseOut = Nothing
    /\ parsePc = "idle"

\* monitorSandbox has not run.
MonitorLocals ==
    /\ browser = NoBrowser
    /\ browserAlive = FALSE
    /\ listeners = {}
    /\ navStarted = FALSE
    /\ errors = <<>>
    /\ warnings = <<>>
    /\ result = NoResult
    /\ fault = ""
    /\ response = NoResponse
    /\ acquired = FALSE
    /\ closeCalls = 0
    /\ navOutcome = "pending"
    /\ waitOutcome = "none"
    /\ evalOutcome = "none"
    /\ nSig = 0
    /\ lastSig = NoSig
    /\ lost = 0
    /\ sigPc = "none"

\* A monitoring request has arrived.
MonitorInit ==
    /\ body \in [sandboxUrl : SandboxUrls, sandboxId : SandboxIds]
    /\ errorTypes \in AllowLists
    /\ pc = "post"
    /\ MonitorLocals

\* No monitoring request.
MonitorIdle ==
    /\ body = [sandboxUrl |-> "", sandboxId |-> ""]
    /\ errorTypes = {}
    /\ pc = "idle"
    /\ MonitorLocals

Init ==
    /\ MonitorInit
    /\ FixIdle
    /\ NormIdle
    /\ PairIdle
    /\ ParseIdle

----------------------------------------------------------------------------
\* POST (monitor-runtime): request validation

ValidationResponse ==
    [kind |-> "validation", status |-> 400, success |-> FALSE,
     hasErrors |-> FALSE, errors |-> <<>>, warnings |-> <<>>,
     summary |-> ZeroSummary,
     monitoringError |-> {"Missing required fields: sandboxUrl and sandboxId"}]

\* The validation testing sandboxUrl only.
Validate_UrlOnly ==
    /\ pc = "post"
    /\ IF body.sandboxUrl = ""
       THEN /\ response' = ValidationResponse
            /\ pc' = "responded"
       ELSE /\ pc' = "launch"
            /\ UNCHANGED response
    /\ UNCHANGED <<body, errorTypes, browser, browserAlive, listeners,
                   navStarted, errors, warnings, result, fault, acquired,
                   closeCalls, navOutcome, waitOutcome, evalOutcome, nSig,
                   lastSig, lost, sigPc, fixVars,
                   normVars, pairVars, parseVars>>

\* The body is validated; a valid request calls monitorSandbox, whose first
\* await is chromium.launch.
Validate ==
    /\ pc = "post"
    /\ IF body.sandboxUrl = "" \/ body.sandboxId = ""
       THEN /\ response' = ValidationResponse
            /\ pc' = "responded"
       ELSE /\ pc' = "launch"
            /\ UNCHANGED response
    /\ UNCHANGED <<body, errorTypes, browser, browserAlive, listeners,
                   navStarted, errors, warnings, result, fault, acquired,
                   closeCalls, navOutcome, waitOutcome, evalOutcome, nSig,
                   lastSig, lost, sigPc, fixVars,
                   normVars, pairVars, parseVars>>

----------------------------------------------------------------------------
\* monitorSandbox

\* The catch block throws the error on without closing the browser.
Throw_NoClose(msg) ==
    /\ fault' = msg
    /\ pc' = "thrown"
    /\ closeCalls' = closeCalls

\* An error thrown inside the outer try reaches the catch block: the browser
\* is closed when `browser` is set, and the error is thrown on.
Throw(msg) ==
    /\ fault' = msg
    /\ IF browser # NoBrowser
       THEN /\ pc' = "catchClose"
            /\ closeCalls' = closeCalls + 1
       ELSE /\ pc' = "thrown"
            /\ closeCalls' = closeCalls

\* chromium.launch (either environment branch) resolves or rejects.
Launch ==
    /\ pc = "launch"
    /\ \E ok \in BOOLEAN :
         IF ok
         THEN /\ browser' = TheBrowser
              /\ browserAlive' = TRUE
              /\ acquired' = TRUE
              /\ pc' = "newContext"
              /\ UNCHANGED <<fault, closeCalls>>
         ELSE /\ Throw("launch failed")
              /\ UNCHANGED <<browser, browserAlive, acquired>>
    /\ UNCHANGED <<body, errorTypes, listeners, navStarted, errors, warnings,
                   result, response, navOutcome, waitOutcome, evalOutcome,
                   nSig, lastSig, lost, sigPc, fixVars,
                   normVars, pairVars, parseVars>>

\* browser.newContext resolves or rejects.
NewContext ==
    /\ pc = "newContext"
    /\ \E ok \in BOOLEAN :
         IF ok
         THEN /\ pc' = "newPage"
              /\ UNCHANGED <<fault, closeCalls>>
         ELSE Throw("newContext failed")
    /\ UNCHANGED <<body, errorTypes, browser, browserAlive, listeners,
                   navStarted, errors, warnings, result, response, acquired,
                   navOutcome, waitOutcome, evalOutcome, nSig, lastSig, lost, sigPc, fixVars,
                   normVars, pairVars, parseVars>>

\* context.newPage resolves or rejects.
NewPage ==
    /\ pc = "newPage"
    /\ \E ok \in BOOLEAN :
         IF ok
         THEN /\ pc' = "setup"
              /\ UNCHANGED <<fault, closeCalls>>
         ELSE Throw("newPage failed")
    /\ UNCHANGED <<body, errorTypes, browser, browserAlive, listeners,
                   navStarted, errors, warnings, result, response, acquired,
                   navOutcome, waitOutcome, evalOutcome, nSig, lastSig, lost, sigPc, fixVars,
                   normVars, pairVars, parseVars>>

\* setupErrorListeners left out: no listener is registered before goto.
SetupErrorListeners_Skipped ==
    /\ pc = "setup"
    /\ pc' = "goto"
    /\ UNCHANGED <<body, errorTypes, browser, browserAlive, listeners,
                   navStarted, errors, warnings, result, fault, response,
                   acquired, closeCalls, navOutcome, waitOutcome,
                   evalOutcome, nSig, lastSig, lost, sigPc, fixVars,
                   normVars, pairVars, parseVars>>

\* setupErrorListeners(page, errors, warnings, config.errorTypes)
SetupErrorListeners ==
    /\ pc = "setup"
    /\ listeners' = listeners \cup ListenerEvents
    /\ pc' = "goto"
    /\ UNCHANGED <<body, errorTypes, browser, browserAlive, navStarted,
                   errors, warnings, result, fault, response, acquired,
                   closeCalls, navOutcome, waitOutcome, evalOutcome, nSig,
                   lastSig, lost, sigPc, fixVars,
                   normVars, pairVars, parseVars>>

\* page.goto is called: navigation starts.
Goto ==
    /\ pc = "goto"
    /\ navStarted' = TRUE
    /\ pc' = "navigating"
    /\ UNCHANGED <<body, errorTypes, browser, browserAlive, listeners,
                   errors, warnings, result, fault, response, acquired,
                   closeCalls, navOutcome, waitOutcome, evalOutcome, nSig,
                   lastSig, lost, sigPc, fixVars,
                   normVars, pairVars, parseVars>>

\* page.goto rejects and the session goes on as after a successful
\* navigation.
GotoSettled_FallThrough ==
    /\ pc = "navigating"
    /\ \E ok \in BOOLEAN :
         navOutcome' = (IF ok THEN "ok" ELSE "failed")
    /\ pc' = "settle"
    /\ UNCHANGED <<body, errorTypes, browser, browserAlive, listeners,
                   navStarted, errors, warnings, result, fault, response,
                   acquired, closeCalls, waitOutcome, evalOutcome, nSig,
                   lastSig, lost, sigPc, fixVars,
                   normVars, pairVars, parseVars>>

\* page.goto resolves, or rejects (timeout or any other failure): then the
\* inner catch calls browser.close().
GotoSettled ==
    /\ pc = "navigating"
    /\ \E ok \in BOOLEAN :
         IF ok
         THEN /\ navOutcome' = "ok"
              /\ pc' = "settle"
              /\ UNCHANGED closeCalls
         ELSE /\ navOutcome' = "failed"
              /\ pc' = "navClose"
              /\ closeCalls' = closeCalls + 1
    /\ UNCHANGED <<body, errorTypes, browser, browserAlive, listeners,
                   navStarted, errors, warnings, result, fault, response,
                   acquired, waitOutcome, evalOutcome, nSig, lastSig, lost, sigPc, fixVars,
                   normVars, pairVars, parseVars>>

\* The browser.close() of the navigation-failure branch resolves: the
\* failure result is returned.  If it rejects, the rejection is an error
\* inside the outer try and `browser` is still set.
NavClose ==
    /\ pc = "navClose"
    /\ \E ok \in BOOLEAN :
         IF ok
         THEN /\ browser' = NoBrowser
              /\ browserAlive' = FALSE
              /\ result' = NavigationFailureResult
              /\ pc' = "returned"
              /\ UNCHANGED <<fault, closeCalls>>
         ELSE /\ Throw("close failed")
              /\ \E alive \in BOOLEAN : browserAlive' = alive
              /\ UNCHANGED <<browser, result>>
    /\ UNCHANGED <<body, errorTypes, listeners, navStarted, errors, warnings,
                   response, acquired, navOutcome, waitOutcome, evalOutcome,
                   nSig, lastSig, lost, sigPc, fixVars,
                   normVars, pairVars, parseVars>>

\* page.waitForTimeout rejects and the rejection is not caught by an inner
\* try.
WaitForTimeout_Unguarded ==
    /\ pc = "settle"
    /\ \E ok \in BOOLEAN :
         IF ok
         THEN /\ waitOutcome' = "ok"
              /\ pc' = "evaluate"
              /\ UNCHANGED <<fault, closeCalls>>
         ELSE /\ waitOutcome' = "rejected"
              /\ Throw("wait failed")
    /\ UNCHANGED <<body, errorTypes, browser, browserAlive, listeners,
                   navStarted, errors, warnings, result, response, acquired,
                   navOutcome, evalOutcome, nSig, lastSig, lost, sigPc, fixVars,
                   normVars, pairVars, parseVars>>

\* page.waitForTimeout resolves or rejects; a rejection is swallowed.
WaitForTimeout ==
    /\ pc = "settle"
    /\ \E ok \in BOOLEAN :
         waitOutcome' = (IF ok THEN "ok" ELSE "rejected")
    /\ pc' = "evaluate"
    /\ UNCHANGED <<body, errorTypes, browser, browserAlive, listeners,
                   navStarted, errors, warnings, result, fault, response,
                   acquired, closeCalls, navOutcome, evalOutcome, nSig,
                   lastSig, lost, sigPc, fixVars,
                   normVars, pairVars, parseVars>>

\* A throwing evaluation taken as content.
HasContent_UnlessFalse(o) == o # "false"

\* hasContent after page.evaluate has settled with outcome o: it stays false
\* when the evaluation throws.
HasContent(o) == o = "true"

\* The content check replacing the warnings by its own warning.
Evaluate_Overwrites ==
    /\ pc = "evaluate"
    /\ \E o \in {"true", "false", "threw"} :
         /\ evalOutcome' = o
         /\ warnings' = IF HasContent(o) THEN warnings
                        ELSE <<EmptyRootWarning>>
    /\ closeCalls' = closeCalls + 1
    /\ pc' = "closing"
    /\ UNCHANGED <<body, errorTypes, browser, browserAlive, listeners,
                   navStarted, errors, result, fault, response, acquired,
                   navOutcome, waitOutcome, nSig, lastSig, lost, sigPc, fixVars,
                   normVars, pairVars, parseVars>>

\* page.evaluate settles; the empty-root warning is pushed when there is no
\* content; browser.close() is called.
Evaluate ==
    /\ pc = "evaluate"
    /\ \E o \in {"true", "false", "threw"} :
         /\ evalOutcome' = o
         /\ warnings' = IF HasContent(o) THEN warnings
                        ELSE Append(warnings, EmptyRootWarning)
    /\ closeCalls' = closeCalls + 1
    /\ pc' = "closing"
    /\ UNCHANGED <<body, errorTypes, browser, browserAlive, listeners,
                   navStarted, errors, result, fault, response, acquired,
                   navOutcome, waitOutcome, nSig, lastSig, lost, sigPc, fixVars,
                   normVars, pairVars, parseVars>>

\* The result returned without waiting for browser.close() to settle: the
\* browser is still alive when the caller holds the result.
CloseBrowser_NotAwaited ==
    /\ pc = "closing"
    /\ browser' = NoBrowser
    /\ browserAlive' = TRUE
    /\ result' = SuccessResult(errors, warnings)
    /\ pc' = "returned"
    /\ UNCHANGED <<body, errorTypes, listeners, navStarted, errors, warnings,
                   fault, closeCalls, response, acquired, navOutcome,
                   waitOutcome, evalOutcome, nSig, lastSig, lost, sigPc, fixVars,
                   normVars, pairVars, parseVars>>

\* A rejected browser.close() of the success path swallowed: the result is
\* returned all the same.
CloseBrowser_FailureSwallowed ==
    /\ pc = "closing"
    /\ \E ok \in BOOLEAN :
         fault' = IF ok THEN fault ELSE "close failed"
    /\ browser' = NoBrowser
    /\ browserAlive' = FALSE
    /\ result' = SuccessResult(errors, warnings)
    /\ pc' = "returned"
    /\ UNCHANGED <<body, errorTypes, listeners, navStarted, errors, warnings,
                   closeCalls, response, acquired, navOutcome, waitOutcome,
                   evalOutcome, nSig, lastSig, lost, sigPc, fixVars,
                   normVars, pairVars, parseVars>>

\* The browser.close() of the success path resolves: the summary is computed
\* and the result returned.  If it rejects, the rejection reaches the outer
\* catch with `browser` still set.
CloseBrowser ==
    /\ pc = "closing"
    /\ \E ok \in BOOLEAN :
         IF ok
         THEN /\ browser' = NoBrowser
              /\ browserAlive' = FALSE
              /\ result' = SuccessResult(errors, warnings)
              /\ pc' = "returned"
              /\ UNCHANGED <<fault, closeCalls>>
         ELSE /\ Throw("close failed")
              /\ \E alive \in BOOLEAN : browserAlive' = alive
              /\ UNCHANGED <<browser, result>>
    /\ UNCHANGED <<body, errorTypes, listeners, navStarted, errors, warnings,
                   response, acquired, navOutcome, waitOutcome, evalOutcome,
                   nSig, lastSig, lost, sigPc, fixVars,
                   normVars, pairVars, parseVars>>

\* The catch's close not guarded: its rejection replaces the original
\* error.
CatchClose_Unguarded ==
    /\ pc = "catchClose"
    /\ \E ok \in BOOLEAN :
         IF ok
         THEN browserAlive' = FALSE /\ fault' = fault
         ELSE /\ \E alive \in BOOLEAN : browserAlive' = alive
              /\ fault' = "close failed"
    /\ pc' = "thrown"
    /\ UNCHANGED <<body, errorTypes, browser, listeners, navStarted, errors,
                   warnings, result, response, acquired, closeCalls,
                   navOutcome, waitOutcome, evalOutcome, nSig, lastSig,
                   lost, sigPc, fixVars,
                   normVars, pairVars, parseVars>>

\* The browser.close() of the outer catch settles (a rejection is swallowed)
\* and the original error is thrown.
CatchClose ==
    /\ pc = "catchClose"
    /\ \E ok \in BOOLEAN :
         IF ok
         THEN browserAlive' = FALSE
         ELSE \E alive \in BOOLEAN : browserAlive' = alive
    /\ pc' = "thrown"
    /\ UNCHANGED <<body, errorTypes, browser, listeners, navStarted, errors,
                   warnings, result, fault, response, acquired, closeCalls,
                   navOutcome, waitOutcome, evalOutcome, nSig, lastSig, lost, sigPc, fixVars,
                   normVars, pairVars, parseVars>>

----------------------------------------------------------------------------
\* POST (monitor-runtime): the response

\* The status taken from the result's success flag.
ResultResponse_StatusBySuccess(r) ==
    [kind |-> r.kind, status |-> IF r.success THEN 200 ELSE 500,
     success |-> r.success,
     hasErrors |-> r.hasErrors, errors |-> r.errors,
     warnings |-> r.warnings, summary |-> r.summary,
     monitoringError |-> {}]

\* NextResponse.json(result)
ResultResponse(r) ==
    [kind |-> r.kind, status |-> 200, success |-> r.success,
     hasErrors |-> r.hasErrors, errors |-> r.errors,
     warnings |-> r.warnings, summary |-> r.summary,
     monitoringError |-> {}]

\* The envelope of the route's catch.
FaultEnvelope(msg) ==
    [kind |-> "envelope", status |-> 500, success |-> FALSE,
     hasErrors |-> FALSE, errors |-> <<>>, warnings |-> <<>>,
     summary |-> ZeroSummary, monitoringError |-> {msg}]

Respond ==
    /\ pc \in {"returned", "thrown"}
    /\ response' = IF pc = "returned" THEN ResultResponse(result)
                   ELSE FaultEnvelope(fault)
    /\ pc' = "responded"
    /\ UNCHANGED <<body, errorTypes, browser, browserAlive, listeners,
                   navStarted, errors, warnings, result, fault, acquired,
                   closeCalls, navOutcome, waitOutcome, evalOutcome, nSig,
                   lastSig, lost, sigPc, fixVars,
                   normVars, pairVars, parseVars>>

----------------------------------------------------------------------------
\* The page

\* The positions at which the flow is suspended and a callback can run.
Suspended ==
    pc \in {"navigating", "navClose", "settle", "evaluate", "closing",
            "catchClose", "responded"}

\* The page fires a signal: the listener of its event, if registered, runs.
\* A returned result holds the session's arrays themselves.
Signal ==
    /\ navStarted
    /\ browserAlive
    /\ Suspended
    /\ nSig < MaxSignals
    /\ \E sig \in Signals :
         /\ lastSig' = sig
         /\ sigPc' = pc
         /\ IF sig.event \in listeners
            THEN /\ errors' = errors \o Handle(sig).e
                 /\ warnings' = warnings \o Handle(sig).w
                 /\ lost' = lost
            ELSE /\ lost' = lost + 1
                 /\ UNCHANGED <<errors, warnings>>
    /\ nSig' = nSig + 1
    /\ result' = IF result.aliased
                 THEN [result EXCEPT !.errors = errors',
                                     !.warnings = warnings']
                 ELSE result
    /\ UNCHANGED <<body, errorTypes, pc, browser, browserAlive, listeners,
                   navStarted, fault, response, acquired, closeCalls,
                   navOutcome, waitOutcome, evalOutcome, fixVars, normVars, pairVars, parseVars>>

----------------------------------------------------------------------------
\* POST (fix-runtime-errors) and fixRuntimeErrors

FixErrorResponse(status, msg) ==
    [kind |-> "error", status |-> status, error |-> msg]

\* result.toTextStreamResponse()
StreamResponse == [kind |-> "stream", status |-> 200, error |-> ""]

\* The errors of the request body (<<>> when the field is missing)
BodyErrors == IF fxBody.errors = {} THEN <<>>
              ELSE CHOOSE es \in fxBody.errors : TRUE

\* The provider looked up before the request is validated.
FixPost_ProviderFirst ==
    /\ fxPc = "post"
    /\ IF ~fxProvider
       THEN /\ fxResponse'
                  = FixErrorResponse(404, "Sandbox provider not found")
            /\ fxPc' = "responded"
            /\ UNCHANGED <<relevantFiles, genCalls>>
       ELSE IF fxBody.sandboxId = "" \/ fxBody.errors = {} \/ BodyErrors = <<>>
       THEN /\ fxResponse'
                  = FixErrorResponse(400, "Missing sandboxId or errors")
            /\ fxPc' = "responded"
            /\ UNCHANGED <<relevantFiles, genCalls>>
       ELSE /\ relevantFiles' = ResolveFiles(BodyErrors, fxBody.focusFiles)
            /\ IF relevantFiles' = <<>>
               THEN fxPc' = "generating" /\ genCalls' = genCalls + 1
               ELSE fxPc' = "reading" /\ genCalls' = genCalls
            /\ UNCHANGED fxResponse
    /\ UNCHANGED <<fxBody, fxProvider, reads, readFailed, fileContexts,
                   fxFault, fxCalls, monitorVars, normVars, pairVars, parseVars>>

\* fixRuntimeErrors called whether or not the sandbox has a provider.
FixPost_NoProviderCheck ==
    /\ fxPc = "post"
    /\ IF fxBody.sandboxId = "" \/ fxBody.errors = {} \/ BodyErrors = <<>>
       THEN /\ fxResponse'
                  = FixErrorResponse(400, "Missing sandboxId or errors")
            /\ fxPc' = "responded"
            /\ UNCHANGED <<relevantFiles, genCalls>>
       ELSE /\ relevantFiles' = ResolveFiles(BodyErrors, fxBody.focusFiles)
            /\ IF relevantFiles' = <<>>
               THEN fxPc' = "generating" /\ genCalls' = genCalls + 1
               ELSE fxPc' = "reading" /\ genCalls' = genCalls
            /\ UNCHANGED fxResponse
    /\ UNCHANGED <<fxBody, fxProvider, reads, readFailed, fileContexts,
                   fxFault, fxCalls, monitorVars, normVars, pairVars, parseVars>>

\* The request is validated and the provider looked up; fixRuntimeErrors
\* then resolves its working file set and, unless the set is empty, calls
\* provider.readFile for its first path.
FixPost ==
    /\ fxPc = "post"
    /\ IF fxBody.sandboxId = "" \/ fxBody.errors = {} \/ BodyErrors = <<>>
       THEN /\ fxResponse'
                  = FixErrorResponse(400, "Missing sandboxId or errors")
            /\ fxPc' = "responded"
            /\ UNCHANGED <<relevantFiles, genCalls>>
       ELSE IF ~fxProvider
       THEN /\ fxResponse'
                  = FixErrorResponse(404, "Sandbox provider not found")
            /\ fxPc' = "responded"
            /\ UNCHANGED <<relevantFiles, genCalls>>
       ELSE /\ relevantFiles' = ResolveFiles(BodyErrors, fxBody.focusFiles)
            /\ IF relevantFiles' = <<>>
               THEN fxPc' = "generating" /\ genCalls' = genCalls + 1
               ELSE fxPc' = "reading" /\ genCalls' = genCalls
            /\ UNCHANGED fxResponse
    /\ UNCHANGED <<fxBody, fxProvider, reads, readFailed, fileContexts,
                   fxFault, fxCalls, monitorVars, normVars, pairVars, parseVars>>

\* A failed read thrown out of fixRuntimeErrors.
ReadFile_Abort ==
    /\ fxPc = "reading"
    /\ LET path == relevantFiles[Len(reads) + 1]
       IN  /\ reads' = Append(reads, path)
           /\ \E ok \in BOOLEAN :
                IF ok
                THEN /\ fileContexts' = Append(fileContexts, path)
                     /\ UNCHANGED <<readFailed, fxFault>>
                     /\ IF Len(reads') = Len(relevantFiles)
                        THEN fxPc' = "generating" /\ genCalls' = genCalls + 1
                        ELSE UNCHANGED <<fxPc, genCalls>>
                ELSE /\ readFailed' = readFailed \cup {path}
                     /\ fxFault' = "read failed"
                     /\ fxPc' = "thrown"
                     /\ UNCHANGED <<fileContexts, genCalls>>
    /\ UNCHANGED <<fxBody, fxProvider, relevantFiles, fxResponse,
                   fxCalls, monitorVars, normVars, pairVars, parseVars>>

\* provider.readFile settles for the next path of the working set: its
\* content is pushed to fileContexts, or its failure is swallowed.  After the
\* last path the prompts are built and streamText is called.
ReadFile ==
    /\ fxPc = "reading"
    /\ LET path == relevantFiles[Len(reads) + 1]
       IN  /\ reads' = Append(reads, path)
           /\ \E ok \in BOOLEAN :
                IF ok
                THEN /\ fileContexts' = Append(fileContexts, path)
                     /\ UNCHANGED readFailed
                ELSE /\ readFailed' = readFailed \cup {path}
                     /\ UNCHANGED fileContexts
    /\ IF Len(reads') = Len(relevantFiles)
       THEN fxPc' = "generating" /\ genCalls' = genCalls + 1
       ELSE UNCHANGED <<fxPc, genCalls>>
    /\ UNCHANGED <<fxBody, fxProvider, relevantFiles, fxFault, fxResponse,
                   fxCalls, monitorVars, normVars, pairVars, parseVars>>

\* A rejected streamText call made once more.
Generate_Retry ==
    /\ fxPc = "generating"
    /\ \E ok \in BOOLEAN :
         IF ok
         THEN fxPc' = "returned" /\ UNCHANGED <<fxFault, genCalls>>
         ELSE IF genCalls < 2
         THEN genCalls' = genCalls + 1 /\ UNCHANGED <<fxPc, fxFault>>
         ELSE /\ fxPc' = "thrown"
              /\ fxFault' = "generation failed"
              /\ UNCHANGED genCalls
    /\ UNCHANGED <<fxBody, fxProvider, relevantFiles, reads, readFailed,
                   fileContexts, fxResponse, fxCalls, monitorVars,
                   normVars, pairVars, parseVars>>

\* streamText resolves and its result is returned, or it rejects and the
\* rejection leaves fixRuntimeErrors.
Generate ==
    /\ fxPc = "generating"
    /\ \E ok \in BOOLEAN :
         IF ok
         THEN fxPc' = "returned" /\ UNCHANGED fxFault
         ELSE fxPc' = "thrown" /\ fxFault' = "generation failed"
    /\ UNCHANGED <<fxBody, fxProvider, relevantFiles, reads, readFailed,
                   fileContexts, genCalls, fxResponse, fxCalls, monitorVars,
                   normVars, pairVars, parseVars>>

\* The route returns the stream, or the error payload of its catch.
FixRespond ==
    /\ fxPc \in {"returned", "thrown"}
    /\ fxResponse' = IF fxPc = "returned" THEN StreamResponse
                     ELSE FixErrorResponse(500, fxFault)
    /\ fxPc' = "responded"
    /\ UNCHANGED <<fxBody, fxProvider, relevantFiles, reads, readFailed,
                   fileContexts, genCalls, fxFault, fxCalls, monitorVars,
                   normVars, pairVars, parseVars>>

\* A fix request has arrived.
FixInit ==
    /\ fxBody \in FixBodies
    /\ fxProvider \in BOOLEAN
    /\ fxPc = "post"
    /\ relevantFiles = <<>>
    /\ reads = <<>>
    /\ readFailed = {}
    /\ fileContexts = <<>>
    /\ genCalls = 0
    /\ fxFault = ""
    /\ fxCalls = 1
    /\ fxResponse = NoFixResponse

\* Another fix request arrives once the last one is answered: the route
\* and fixRuntimeErrors run again, with new locals, and the provider is
\* looked up again.
FixAgain ==
    /\ fxPc = "responded"
    /\ fxCalls < MaxRequests
    /\ fxCalls' = fxCalls + 1
    /\ fxBody' \in NextBodies
    /\ fxPc' = "post"
    /\ reads' = <<>>
    /\ readFailed' = {}
    /\ fileContexts' = <<>>
    /\ genCalls' = 0
    /\ fxFault' = ""
    /\ fxProvider' \in BOOLEAN
    /\ fxResponse' = NoFixResponse
    /\ UNCHANGED <<relevantFiles, monitorVars, normVars, pairVars,
                   parseVars>>

FixNext ==
    \/ FixPost
    \/ ReadFile
    \/ Generate
    \/ FixRespond
    \/ FixAgain

InitFix == FixInit /\ MonitorIdle /\ NormIdle /\ PairIdle /\ ParseIdle

SpecFix == InitFix /\ [][FixNext]_vars

----------------------------------------------------------------------------
\* The normalization applied to a path, and again to its result

NormalizeApply ==
    /\ Len(normOut) < 2
    /\ normOut' = Append(normOut,
                         Normalize(IF normOut = <<>> THEN normIn
                                   ELSE normOut[Len(normOut)]))
    /\ UNCHANGED <<normIn, monitorVars, fixVars, pairVars, parseVars>>

NormInit ==
    /\ normIn \in Paths
    /\ normOut = <<>>

InitNormalize ==
    NormInit /\ MonitorIdle /\ FixIdle /\ PairIdle /\ ParseIdle

NextNormalize == NormalizeApply

SpecNormalize == InitNormalize /\ [][NextNormalize]_vars

----------------------------------------------------------------------------
\* Two invocations of monitorSandbox in one process.  Every step runs to the
\* next await of its invocation; the steps of the two invocations interleave.

\* The catch block of an invocation: close when `browser` is set, else throw.
PairCatch(s) == IF sBrowser[s] = 0 THEN "thrown" ELSE "catchClose"

PairEnter_Shared(s) ==
    /\ sPc[s] = "idle"
    /\ sErrors' = [sErrors EXCEPT ![s] = 1]
    /\ sWarnings' = [sWarnings EXCEPT ![s] = 2]
    /\ nextArray' = IF nextArray < 3 THEN 3 ELSE nextArray
    /\ sPc' = [sPc EXCEPT ![s] = "launch"]
    /\ UNCHANGED <<heap, nextBrowser, openBrowsers, sBrowser, sListener,
                   sResult, sLaunched, sClosed, sEvents, monitorVars,
                   fixVars, normVars, parseVars>>

\* The call: `errors` and `warnings` are new arrays, `browser` is null.
PairEnter(s) ==
    /\ sPc[s] = "idle"
    /\ sErrors' = [sErrors EXCEPT ![s] = nextArray]
    /\ sWarnings' = [sWarnings EXCEPT ![s] = nextArray + 1]
    /\ nextArray' = nextArray + 2
    /\ sPc' = [sPc EXCEPT ![s] = "launch"]
    /\ UNCHANGED <<heap, nextBrowser, openBrowsers, sBrowser, sListener,
                   sResult, sLaunched, sClosed, sEvents, monitorVars,
                   fixVars, normVars, parseVars>>

PairLaunch_Singleton(s) ==
    /\ sPc[s] = "launch"
    /\ sBrowser' = [sBrowser EXCEPT ![s] = 1]
    /\ openBrowsers' = openBrowsers \cup {1}
    /\ sLaunched' = [sLaunched EXCEPT ![s] = @ \cup {1}]
    /\ nextBrowser' = 2
    /\ sPc' = [sPc EXCEPT ![s] = "newPage"]
    /\ UNCHANGED <<heap, nextArray, sErrors, sWarnings, sListener, sResult,
                   sClosed, sEvents, monitorVars, fixVars, normVars, parseVars>>

\* chromium.launch starts a browser of its own for the call, or rejects.
PairLaunch(s) ==
    /\ sPc[s] = "launch"
    /\ \E ok \in BOOLEAN :
         IF ok
         THEN /\ sBrowser' = [sBrowser EXCEPT ![s] = nextBrowser]
              /\ openBrowsers' = openBrowsers \cup {nextBrowser}
              /\ sLaunched' = [sLaunched EXCEPT ![s] = @ \cup {nextBrowser}]
              /\ nextBrowser' = nextBrowser + 1
              /\ sPc' = [sPc EXCEPT ![s] = "newPage"]
         ELSE /\ sPc' = [sPc EXCEPT ![s] = PairCatch(s)]
              /\ UNCHANGED <<sBrowser, openBrowsers, sLaunched, nextBrowser>>
    /\ UNCHANGED <<heap, nextArray, sErrors, sWarnings, sListener, sResult,
                   sClosed, sEvents, monitorVars, fixVars, normVars, parseVars>>

\* browser.newContext and context.newPage resolve or reject; on the page
\* setupErrorListeners registers callbacks that hold the invocation's two
\* arrays, and page.goto starts.
PairNewPage(s) ==
    /\ sPc[s] = "newPage"
    /\ \E ok \in BOOLEAN :
         IF ok
         THEN /\ sListener' = [sListener EXCEPT ![s] =
                     [installed |-> TRUE, browser |-> sBrowser[s],
                      errors |-> sErrors[s], warnings |-> sWarnings[s]]]
              /\ sPc' = [sPc EXCEPT ![s] = "navigating"]
         ELSE /\ sPc' = [sPc EXCEPT ![s] = PairCatch(s)]
              /\ UNCHANGED sListener
    /\ UNCHANGED <<heap, nextArray, nextBrowser, openBrowsers, sErrors,
                   sWarnings, sBrowser, sResult, sLaunched, sClosed, sEvents,
                   monitorVars, fixVars, normVars, parseVars>>

\* A page event of a session whose browser runs: the callback registered on
\* that page pushes an entry onto one of the arrays it holds.
PairEvent(s) ==
    /\ sListener[s].installed
    /\ sListener[s].browser \in openBrowsers
    /\ sEvents[s] < MaxSignals
    /\ \E list \in {"errors", "warnings"} :
         LET a == IF list = "errors" THEN sListener[s].errors
                  ELSE sListener[s].warnings
         IN  heap' = [heap EXCEPT ![a] = Append(@, PairEntry(s, "listener"))]
    /\ sEvents' = [sEvents EXCEPT ![s] = @ + 1]
    /\ UNCHANGED <<nextArray, nextBrowser, openBrowsers, sPc, sErrors,
                   sWarnings, sBrowser, sListener, sResult, sLaunched,
                   sClosed, monitorVars, fixVars, normVars, parseVars>>

\* page.goto resolves, or rejects into the navigation catch block.
PairGotoSettled(s) ==
    /\ sPc[s] = "navigating"
    /\ \E ok \in BOOLEAN :
         sPc' = [sPc EXCEPT ![s] = IF ok THEN "evaluate" ELSE "navClose"]
    /\ UNCHANGED <<heap, nextArray, nextBrowser, openBrowsers, sErrors,
                   sWarnings, sBrowser, sListener, sResult, sLaunched,
                   sClosed, sEvents, monitorVars, fixVars, normVars, parseVars>>

\* Navigation failed: browser.close() resolves and the failure result, with
\* two new arrays, is returned; or it rejects into the outer catch block.
PairNavClose(s) ==
    /\ sPc[s] = "navClose"
    /\ sClosed' = [sClosed EXCEPT ![s] = @ \cup {sBrowser[s]}]
    /\ \E ok \in BOOLEAN :
         IF ok
         THEN /\ openBrowsers' = openBrowsers \ {sBrowser[s]}
              /\ sBrowser' = [sBrowser EXCEPT ![s] = 0]
              /\ heap' = [heap EXCEPT ![nextArray] =
                              <<PairEntry(s, "navigation")>>]
              /\ sResult' = [sResult EXCEPT ![s] =
                     [kind |-> "failure", errors |-> nextArray,
                      warnings |-> nextArray + 1]]
              /\ nextArray' = nextArray + 2
              /\ sPc' = [sPc EXCEPT ![s] = "returned"]
         ELSE /\ sPc' = [sPc EXCEPT ![s] = "catchClose"]
              /\ UNCHANGED <<openBrowsers, sBrowser, heap, sResult, nextArray>>
    /\ UNCHANGED <<nextBrowser, sErrors, sWarnings, sListener, sLaunched,
                   sEvents, monitorVars, fixVars, normVars, parseVars>>

\* page.waitForTimeout and page.evaluate: an empty root pushes a warning onto
\* the invocation's `warnings`; a rejection goes to the catch block.
PairEvaluate(s) ==
    /\ sPc[s] = "evaluate"
    /\ \E outcome \in {"content", "empty", "rejected"} :
         /\ heap' = IF outcome = "empty"
                    THEN [heap EXCEPT ![sWarnings[s]] =
                              Append(@, PairEntry(s, "evaluate"))]
                    ELSE heap
         /\ sPc' = [sPc EXCEPT ![s] = IF outcome = "rejected"
                                      THEN PairCatch(s) ELSE "closing"]
    /\ UNCHANGED <<nextArray, nextBrowser, openBrowsers, sErrors, sWarnings,
                   sBrowser, sListener, sResult, sLaunched, sClosed, sEvents,
                   monitorVars, fixVars, normVars, parseVars>>

\* browser.close() resolves and the result, holding the invocation's two
\* arrays, is returned; or it rejects into the catch block.
PairClose(s) ==
    /\ sPc[s] = "closing"
    /\ sClosed' = [sClosed EXCEPT ![s] = @ \cup {sBrowser[s]}]
    /\ \E ok \in BOOLEAN :
         IF ok
         THEN /\ openBrowsers' = openBrowsers \ {sBrowser[s]}
              /\ sBrowser' = [sBrowser EXCEPT ![s] = 0]
              /\ sResult' = [sResult EXCEPT ![s] =
                     [kind |-> "success", errors |-> sErrors[s],
                      warnings |-> sWarnings[s]]]
              /\ sPc' = [sPc EXCEPT ![s] = "returned"]
         ELSE /\ sPc' = [sPc EXCEPT ![s] = "catchClose"]
              /\ UNCHANGED <<openBrowsers, sBrowser, sResult>>
    /\ UNCHANGED <<heap, nextArray, nextBrowser, sErrors, sWarnings,
                   sListener, sLaunched, sEvents, monitorVars, fixVars,
                   normVars, parseVars>>

\* The catch block closes `browser`; a failing close leaves it running.
PairCatchClose(s) ==
    /\ sPc[s] = "catchClose"
    /\ sClosed' = [sClosed EXCEPT ![s] = @ \cup {sBrowser[s]}]
    /\ \E ok \in BOOLEAN :
         openBrowsers' = IF ok THEN openBrowsers \ {sBrowser[s]}
                         ELSE openBrowsers
    /\ sPc' = [sPc EXCEPT ![s] = "thrown"]
    /\ UNCHANGED <<heap, nextArray, nextBrowser, sErrors, sWarnings,
                   sBrowser, sListener, sResult, sLaunched, sEvents,
                   monitorVars, fixVars, normVars, parseVars>>

\* Two monitoring requests have arrived.
PairInit ==
    /\ heap = [a \in Arrays |-> <<>>]
    /\ nextArray = 1
    /\ nextBrowser = 1
    /\ openBrowsers = {}
    /\ sPc = [s \in Sessions |-> "idle"]
    /\ sErrors = [s \in Sessions |-> 0]
    /\ sWarnings = [s \in Sessions |-> 0]
    /\ sBrowser = [s \in Sessions |-> 0]
    /\ sListener = [s \in Sessions |-> NoListener]
    /\ sResult = [s \in Sessions |-> NoPairResult]
    /\ sLaunched = [s \in Sessions |-> {}]
    /\ sClosed = [s \in Sessions |-> {}]
    /\ sEvents = [s \in Sessions |-> 0]

PairNext ==
    \E s \in Sessions :
        \/ PairEnter(s)
        \/ PairLaunch(s)
        \/ PairNewPage(s)
        \/ PairEvent(s)
        \/ PairGotoSettled(s)
        \/ PairNavClose(s)
        \/ PairEvaluate(s)
        \/ PairClose(s)
        \/ PairCatchClose(s)

InitPair == PairInit /\ MonitorIdle /\ FixIdle /\ NormIdle /\ ParseIdle

SpecPair == InitPair /\ [][PairNext]_vars

----------------------------------------------------------------------------
\* A listener called with a signal of any text

\* The signals whose text, or stack, is t.
TextSignals(t) ==
    {Sig("console", "error", 0, {}, t),
     Sig("console", "warning", 0, {}, t),
     Sig("pageerror", "", 0, {}, t),
     Sig("pageerror", "", 0, {t}, BareText),
     Sig("pageerror", "", 0, {t}, PlainText),
     Sig("response", "", 404, {}, t),
     Sig("response", "", 400, {}, t),
     Sig("requestfailed", "", 0, {}, t)}

ParseApply ==
    /\ parsePc = "fired"
    /\ parseOut' = Handle(parseSig)
    /\ parsePc' = "handled"
    /\ UNCHANGED <<parseSig, monitorVars, fixVars, normVars, pairVars>>

ParseInit ==
    /\ \E t \in Texts : parseSig \in TextSignals(t)
    /\ parseOut = Nothing
    /\ parsePc = "fired"

InitParse == ParseInit /\ MonitorIdle /\ FixIdle /\ NormIdle /\ PairIdle

NextParse == ParseApply

SpecParse == InitParse /\ [][NextParse]_vars

----------------------------------------------------------------------------
Next ==
    \/ Validate
    \/ Launch
    \/ NewContext
    \/ NewPage
    \/ SetupErrorListeners
    \/ Goto
    \/ GotoSettled
    \/ NavClose
    \/ WaitForTimeout
    \/ Evaluate
    \/ CloseBrowser
    \/ CatchClose
    \/ Respond
    \/ Signal

Spec == Init /\ [][Next]_vars

----------------------------------------------------------------------------
\* Properties of the monitoring session

\* The responses that carry a monitoring result.
IsMonitorResult(r) == r.kind \in {"success", "navFailure", "envelope"}

\* s holds an entry of severity critical or error.
HasSevere(s) ==
    \E i \in 1..Len(s) : s[i].severity \in {"critical", "error"}

\* C1: once navigation has started, a listener is registered for each of the
\* four events console, pageerror, response and requestfailed, and no signal
\* the page has fired went unseen by a listener.
C1_ListenersBeforeNavigation ==
    navStarted =>
        /\ {"console", "pageerror", "response", "requestfailed"}
               \subseteq listeners
        /\ lost = 0

\* A signal fired while page.goto was still pending was recorded.
C1_Witness ==
    /\ navStarted
    /\ sigPc = "navigating"
    /\ lastSig.event = "pageerror"
    /\ Len(errors) = 1
    /\ lost = 0

\* C2: when monitorSandbox has returned or thrown and a browser had been
\* acquired, browser.close() has been called at least once.
C2_CloseAttempted ==
    (pc \in {"returned", "thrown", "responded"} /\ acquired)
        => closeCalls >= 1

\* An internal fault after the launch: the browser was closed in the catch.
C2_Witness ==
    /\ pc = "thrown"
    /\ acquired
    /\ fault = "newPage failed"
    /\ closeCalls = 1

\* C3: in every result (success, navigation failure) and in the fault
\* envelope, hasErrors is true exactly when the errors list holds an entry of
\* severity critical or error.
C3_HasErrorsIffSevere ==
    /\ result.kind # "none"
           => (result.hasErrors <=> HasSevere(result.errors))
    /\ IsMonitorResult(response)
           => (response.hasErrors <=> HasSevere(response.errors))

\* A session that collected warnings only, one of them while the browser was
\* being closed.
C3_Witness ==
    /\ response.kind = "success"
    /\ response.errors = <<>>
    /\ Len(response.warnings) >= 2
    /\ sigPc = "closing"
    /\ ~response.hasErrors

\* C4: in every result and in the fault envelope, summary.totalErrors is the
\* number of entries of errors plus the number of entries of warnings.
C4_TotalErrors ==
    /\ result.kind # "none"
           => result.summary.totalErrors
                  = Len(result.errors) + Len(result.warnings)
    /\ IsMonitorResult(response)
           => response.summary.totalErrors
                  = Len(response.errors) + Len(response.warnings)

\* A result with an error and a warning, the last callback having run while
\* the browser was being closed.
C4_Witness ==
    /\ response.kind = "success"
    /\ Len(response.errors) >= 1
    /\ Len(response.warnings) >= 1
    /\ sigPc = "closing"

\* The classification table: the list a signal's entry goes to, with its
\* type and severity.
C5_Table(sig) ==
    CASE sig.event = "console" /\ sig.level = "error" ->
             [list |-> "errors", type |-> "console-error",
              severity |-> "error"]
      [] sig.event = "console" /\ sig.level = "warning" ->
             [list |-> "warnings", type |-> "console-warning",
              severity |-> "warning"]
      [] sig.event = "pageerror" ->
             [list |-> "errors", type |-> "exception",
              severity |-> "critical"]
      [] sig.event = "response" /\ sig.status = 404 ->
             [list |-> "errors", type |-> "network-404",
              severity |-> "error"]
      [] sig.event = "response" /\ sig.status >= 500 ->
             [list |-> "errors", type |-> "network-500",
              severity |-> "critical"]
      [] sig.event = "response" /\ sig.status >= 400 /\ sig.status < 500
             /\ sig.status # 404 ->
             [list |-> "warnings", type |-> "network-other",
              severity |-> "warning"]
      [] sig.event = "requestfailed" ->
             [list |-> "warnings", type |-> "network-other",
              severity |-> "warning"]
      [] OTHER -> [list |-> "none", type |-> "", severity |-> ""]

\* s is t with one entry of type and severity as in row appended.
OneMore(s, t, row) ==
    /\ Len(s) = Len(t) + 1
    /\ SubSeq(s, 1, Len(t)) = t
    /\ s[Len(s)].type = row.type
    /\ s[Len(s)].severity = row.severity

\* C5: with no allow-list, every signal appends what the classification
\* table says, to the list it says, and nothing else.
C5_Classification ==
    [][(nSig' # nSig /\ errorTypes = {}) =>
          LET row == C5_Table(lastSig')
          IN  CASE row.list = "errors" ->
                       OneMore(errors', errors, row) /\ warnings' = warnings
                [] row.list = "warnings" ->
                       OneMore(warnings', warnings, row) /\ errors' = errors
                [] OTHER -> errors' = errors /\ warnings' = warnings]_vars

\* A 4xx response other than 404, with no allow-list, became a warning.
C5_Witness ==
    /\ errorTypes = {}
    /\ lastSig.event = "response"
    /\ lastSig.status = 400
    /\ Len(warnings) = 2
    /\ warnings[2].type = "network-other"

\* The entries of s from position n + 1 on have a type of the allow-list.
NewAllowed(s, n) ==
    \A i \in (n + 1)..Len(s) : s[i].type \in errorTypes

\* C6: with a non-empty allow-list, no listener appends an entry whose type
\* is outside the allow-list.
C6_AllowListApplies ==
    [][(nSig' # nSig /\ errorTypes # {}) =>
          /\ NewAllowed(errors', Len(errors))
          /\ NewAllowed(warnings', Len(warnings))]_vars

\* severity as a function of type
SeverityOf(type) ==
    CASE type = "console-error" -> "error"
      [] type = "exception" -> "critical"
      [] type = "network-404" -> "error"
      [] type = "network-500" -> "critical"
      [] type = "network-other" -> "warning"
      [] type = "console-warning" -> "warning"

AllBySeverityOf(s) ==
    \A i \in 1..Len(s) : s[i].severity = SeverityOf(s[i].type)

\* C7 as claimed: every entry of every result has the severity of its type.
C7_SeverityOfType ==
    /\ IsMonitorResult(response)
           => AllBySeverityOf(response.errors)
              /\ AllBySeverityOf(response.warnings)
    /\ result.kind # "none"
           => AllBySeverityOf(result.errors)
              /\ AllBySeverityOf(result.warnings)

\* s is the errors list of the navigation-failure result: the one
\* synthesized network-other entry of severity critical.
IsNavigationFailureErrors(r) ==
    /\ r.kind = "navFailure"
    /\ Len(r.errors) = 1
    /\ r.errors[1].type = "network-other"
    /\ r.errors[1].severity = "critical"

\* C7 amended: every entry of every result has the severity of its type,
\* except the synthesized navigation-failure error, which has type
\* network-other and severity critical.
C7_SeverityOfTypeButNavigation ==
    /\ AllBySeverityOf(errors)
    /\ AllBySeverityOf(warnings)
    /\ result.kind # "none"
           => /\ AllBySeverityOf(result.warnings)
              /\ (AllBySeverityOf(result.errors)
                     \/ IsNavigationFailureErrors(result))
    /\ IsMonitorResult(response)
           => /\ AllBySeverityOf(response.warnings)
              /\ (AllBySeverityOf(response.errors)
                     \/ IsNavigationFailureErrors(response))

\* A success result with an exception and the empty-root warning.
C7_Witness ==
    /\ response.kind = "success"
    /\ evalOutcome = "false"
    /\ Len(response.errors) >= 1
    /\ response.errors[1].type = "exception"
    /\ Len(response.warnings) >= 1

\* r is the navigation-failure result of the scenario.
IsFailureShape(r) ==
    /\ r.success = FALSE
    /\ r.hasErrors = TRUE
    /\ Len(r.errors) = 1
    /\ r.errors[1].type = "network-other"
    /\ r.errors[1].severity = "critical"
    /\ r.warnings = <<>>
    /\ r.summary = [totalErrors |-> 1, consoleErrors |-> 0,
                    networkErrors |-> 1, exceptions |-> 0]

\* C8: the result monitorSandbox returns after a failed navigation, and the
\* response that carries it, has success false, hasErrors true, one
\* critical network-other error, no warning and the summary 1/0/1/0,
\* whatever the listeners collected.
C8_NavigationFailureResult ==
    navOutcome = "failed" =>
        /\ result.kind # "none" => IsFailureShape(result)
        /\ response.kind \in {"success", "navFailure"}
               => IsFailureShape(response) /\ response.status = 200

\* The failure result was returned although the listeners had collected an
\* error and a warning during the navigation.
C8_Witness ==
    /\ navOutcome = "failed"
    /\ response.kind = "navFailure"
    /\ Len(errors) = 1
    /\ Len(warnings) = 1

\* C9: after a failed navigation neither the settle wait nor the content
\* evaluation runs, and when the failure result is returned the browser has
\* been closed.
C9_NoCollectionAfterNavigationFailure ==
    navOutcome = "failed" =>
        /\ waitOutcome = "none"
        /\ evalOutcome = "none"
        /\ pc \notin {"settle", "evaluate", "closing"}
        /\ result.kind # "none"
               => /\ closeCalls >= 1
                  /\ ~browserAlive
                  /\ browser = NoBrowser

\* The failure result has been returned.
C9_Witness ==
    /\ navOutcome = "failed"
    /\ pc = "returned"
    /\ result.kind = "navFailure"
    /\ closeCalls = 1

\* C10: when the settle wait rejected or the content evaluation threw, the
\* session goes on: monitorSandbox throws only if browser.close() rejects,
\* and a returned result has success true, holds the collected errors and
\* warnings, and the browser has been closed.
C10_BestEffortStepsSwallowed ==
    (waitOutcome = "rejected" \/ evalOutcome = "threw") =>
        /\ pc \in {"evaluate", "closing", "catchClose", "thrown",
                   "returned", "responded"}
        /\ fault \in {"", "close failed"}
        /\ pc = "returned"
               => /\ result.success
                  /\ result.errors = errors
                  /\ result.warnings = warnings
                  /\ closeCalls >= 1
                  /\ ~browserAlive
        /\ (pc = "responded" /\ fault = "")
               => /\ response.kind = "success"
                  /\ response.success
                  /\ response.errors = errors
                  /\ response.warnings = warnings

\* Both best-effort steps failed and the result with the collected error was
\* returned.
C10_Witness ==
    /\ waitOutcome = "rejected"
    /\ evalOutcome = "threw"
    /\ pc = "responded"
    /\ response.kind = "success"
    /\ response.success
    /\ Len(response.errors) = 1
    /\ Len(response.warnings) = 1

\* C11: an internal fault closes the browser when one was acquired and is
\* thrown on unchanged, also when that close rejects; the response is then
\* the envelope with success false, no errors, no warnings, a zero summary
\* and the fault's message, while a navigation-failure response carries no
\* monitoringError.
C11_FaultEnvelope ==
    /\ (pc = "thrown" \/ (pc = "responded" /\ fault # ""))
           => /\ acquired => closeCalls >= 1
              /\ ~acquired <=> fault = "launch failed"
              /\ navOutcome = "pending"
                     => fault \in {"launch failed", "newContext failed",
                                   "newPage failed"}
    /\ (pc = "responded" /\ fault # "") => response.kind = "envelope"
    /\ response.kind = "envelope"
           => /\ fault # ""
              /\ response.success = FALSE
              /\ response.errors = <<>>
              /\ response.warnings = <<>>
              /\ response.summary
                     = [totalErrors |-> 0, consoleErrors |-> 0,
                        networkErrors |-> 0, exceptions |-> 0]
              /\ response.monitoringError = {fault}
    /\ response.kind = "navFailure" => response.monitoringError = {}

\* newPage threw, the catch's close rejected (the browser is still alive)
\* and the caller got the envelope with the newPage fault.
C11_Witness ==
    /\ pc = "responded"
    /\ response.kind = "envelope"
    /\ response.monitoringError = {"newPage failed"}
    /\ acquired
    /\ closeCalls = 1
    /\ browserAlive

\* C12: a request without sandboxUrl or sandboxId is answered by the
\* validation failure and never launches a browser, registers a listener,
\* navigates or closes.
C12_ValidationBeforeBrowser ==
    (body.sandboxUrl = "" \/ body.sandboxId = "") =>
        /\ pc \in {"post", "responded"}
        /\ ~acquired
        /\ browser = NoBrowser
        /\ ~browserAlive
        /\ listeners = {}
        /\ ~navStarted
        /\ closeCalls = 0
        /\ pc = "responded"
               => response.kind = "validation" /\ response.status = 400

\* A request with a url and no id has been rejected.
C12_Witness ==
    /\ body.sandboxUrl # ""
    /\ body.sandboxId = ""
    /\ pc = "responded"
    /\ response.status = 400

\* C13 as claimed: a returned result is answered with status 200, the
\* envelope is answered only when monitorSandbox threw, and monitoringError
\* is present only when the session itself failed.
C13_MonitoringErrorOnlyOnFault ==
    /\ (pc = "responded" /\ result.kind # "none") => response.status = 200
    /\ response.kind = "envelope" => fault # "" /\ response.status = 500
    /\ response.monitoringError # {} => fault # ""

\* C13 amended: as claimed, except that the validation failure response
\* carries monitoringError too; a response that carries a result never does.
C13_MonitoringErrorOnFaultOrValidation ==
    /\ (pc = "responded" /\ result.kind # "none")
           => /\ response.status = 200
              /\ response.kind \in {"success", "navFailure"}
              /\ response.monitoringError = {}
    /\ response.kind = "envelope"
           => /\ fault # ""
              /\ result.kind = "none"
              /\ response.status = 500
    /\ response.status \notin {0, 200}
           => response.kind \in {"envelope", "validation"}
    /\ response.monitoringError # {}
           => \/ fault # "" /\ response.kind = "envelope"
              \/ response.kind = "validation" /\ ~acquired

\* The navigation-failure result was answered with status 200 and without
\* monitoringError.
C13_Witness ==
    /\ pc = "responded"
    /\ result.kind = "navFailure"
    /\ response.success = FALSE
    /\ response.status = 200
    /\ response.monitoringError = {}

\* s is a prefix of t.
IsPrefix(s, t) == Len(s) <= Len(t) /\ SubSeq(t, 1, Len(s)) = s

\* C15: every step of a session leaves the entries already in errors and in
\* warnings where they are and as they are: entries are only appended.
C15_AppendOnly ==
    [][IsPrefix(errors, errors') /\ IsPrefix(warnings, warnings')]_vars

\* Two listener callbacks and then the content check each appended a
\* warning.
C15_Witness ==
    /\ Len(warnings) = 3
    /\ evalOutcome = "false"
    /\ warnings[3].type = "console-warning"
    /\ warnings[1].type = "network-other"

\* r's hasErrors and total agree with r's lists.
Consistent(r) ==
    /\ r.hasErrors <=> HasSevere(r.errors)
    /\ r.summary.totalErrors = Len(r.errors) + Len(r.warnings)

\* C16: once monitorSandbox has returned a result, no step changes it, and
\* its hasErrors and summary agree with its lists.
C16_ResultNotMutated ==
    [][result.kind # "none" => result' = result /\ Consistent(result')]_vars

\* The success result with two collected errors is held by the caller after
\* the response.
C16_Witness ==
    /\ pc = "responded"
    /\ result.kind = "success"
    /\ Len(result.errors) = 2
    /\ response.errors = result.errors

----------------------------------------------------------------------------
\* Properties of the fixer

\* fixRuntimeErrors has been called and has resolved its working set.
FixCalled == fxPc \in {"reading", "generating", "returned", "thrown"}
                 \/ (fxPc = "responded" /\ genCalls > 0)

\* fixRuntimeErrors is past its read loop.
ReadsDone == FixCalled /\ fxPc # "reading"

\* C17: in every call of fixRuntimeErrors the working set holds
\* package.json, index.html, src/index.css and src/main.jsx, and once the
\* read loop is over a read has been attempted for each of them.
C17_AlwaysRelevantFiles ==
    LET four == { <<"package", ".", "json">>,
                  <<"index", ".", "html">>,
                  <<"src", "/", "index", ".", "css">>,
                  <<"src", "/", "main", ".", "jsx">> }
    IN  /\ FixCalled => four \subseteq Range(relevantFiles)
        /\ ReadsDone => four \subseteq Range(reads)

\* No focus file and no error with a source file: the four files alone were
\* read.
C17_Witness ==
    /\ fxPc = "generating"
    /\ fxBody.focusFiles = <<>>
    /\ \A i \in 1..Len(BodyErrors) : BodyErrors[i].file = {}
    /\ Len(BodyErrors) = 2
    /\ Len(reads) = 4

\* C18: normalizing a normalized path yields the same path.
C18_NormalizeIdempotent ==
    Len(normOut) = 2 => normOut[2] = normOut[1]

\* The normal form the claim describes: one leading separator and then one
\* leading "./" are dropped, and a .jsx or .tsx path not under src/ gets the
\* src/ prefix.
C19_NormalForm(p) ==
    LET a == IF p # <<>> /\ Head(p) = "/" THEN Tail(p) ELSE p
        b == IF Len(a) >= 2 /\ a[1] = "." /\ a[2] = "/"
             THEN Tail(Tail(a)) ELSE a
        underSrc == Len(b) >= 2 /\ b[1] = "src" /\ b[2] = "/"
        component == /\ Len(b) >= 2
                     /\ b[Len(b) - 1] = "."
                     /\ b[Len(b)] \in {"jsx", "tsx"}
    IN  IF component /\ ~underSrc THEN <<"src", "/">> \o b ELSE b

\* C19: the working set holds the normal form of the source file of every
\* error that has one; /App.jsx gives src/App.jsx, and a path under src/ or
\* with another extension is never given the prefix.
C19_NormalizedSourceInWorkingSet ==
    FixCalled =>
        \A i \in 1..Len(BodyErrors) :
            \A f \in BodyErrors[i].file :
                f # <<>> =>
                    /\ C19_NormalForm(f) \in Range(relevantFiles)
                    /\ f = <<"/", "App", ".", "jsx">>
                           => <<"src", "/", "App", ".", "jsx">>
                                  \in Range(relevantFiles)
                    /\ f = <<"src", "/", "App", ".", "jsx">>
                           => <<"src", "/", "src", "/", "App", ".", "jsx">>
                                  \notin Range(relevantFiles)
                    /\ f = <<"/", "App", ".", "css">>
                           => /\ <<"App", ".", "css">>
                                     \in Range(relevantFiles)
                              /\ <<"src", "/", "App", ".", "css">>
                                     \notin Range(relevantFiles)

\* A call with /App.jsx and /App.css as source files.
C19_Witness ==
    /\ fxPc = "reading"
    /\ Len(BodyErrors) = 2
    /\ BodyErrors[1].file = {<<"/", "App", ".", "jsx">>}
    /\ BodyErrors[2].file = {<<"/", "App", ".", "css">>}
    /\ fxBody.focusFiles = <<>>
    /\ Len(relevantFiles) = 6

\* The paths of q that are not in S, in q's order.
RECURSIVE Without(_, _)
Without(q, S) ==
    IF q = <<>> THEN <<>>
    ELSE IF Head(q) \in S THEN Without(Tail(q), S)
    ELSE <<Head(q)>> \o Without(Tail(q), S)

\* C20: whatever reads fail, every path of the working set is read, the
\* generation is invoked, and the file context is the working set without
\* the paths whose read failed.
C20_ReadFailuresSwallowed ==
    /\ FixCalled => fxFault \in {"", "generation failed"}
    /\ ReadsDone =>
           /\ reads = relevantFiles
           /\ genCalls = 1
           /\ fileContexts = Without(relevantFiles, readFailed)
           /\ Range(fileContexts) \cap readFailed = {}

\* Two reads failed, among them the first, and the generation was invoked
\* with the rest.
C20_Witness ==
    /\ fxPc = "generating"
    /\ Cardinality(readFailed) = 2
    /\ relevantFiles[1] \in readFailed
    /\ Len(fileContexts) = Len(relevantFiles) - 2
    /\ genCalls = 1

----------------------------------------------------------------------------
\* Properties of two concurrent monitoring sessions

\* The arrays invocation s created: its errors and warnings, and those of
\* the result it returned.
SessionArrays(s) ==
    {sErrors[s], sWarnings[s], sResult[s].errors, sResult[s].warnings} \ {0}

\* The entries held by array a.
EntriesOf(a) == {heap[a][i] : i \in 1..Len(heap[a])}

\* C14: of two monitor invocations, each has a browser of its own and
\* errors/warnings collections of its own; the callbacks of one append only
\* to its own collections, no invocation closes a browser it did not launch,
\* and the collections of each (those of its result included) hold only
\* entries created by itself.
C14_SessionsIsolated ==
    \A s \in Sessions :
        /\ sBrowser[s] # 0 => sBrowser[s] \in sLaunched[s]
        /\ sClosed[s] \subseteq sLaunched[s]
        /\ sListener[s].installed =>
               /\ sListener[s].browser \in sLaunched[s]
               /\ {sListener[s].errors, sListener[s].warnings}
                      = {sErrors[s], sWarnings[s]}
        /\ \A a \in SessionArrays(s) : \A e \in EntriesOf(a) : e.by = s
        /\ \A t \in Sessions \ {s} :
               /\ sLaunched[s] \cap sLaunched[t] = {}
               /\ SessionArrays(s) \cap SessionArrays(t) = {}

\* The first invocation returned its result, with entries of its callbacks,
\* and closed its browser, while the second, started before that, still
\* navigates with its browser running and entries collected.
C14_Witness ==
    /\ sPc[1] = "returned"
    /\ sResult[1].kind = "success"
    /\ heap[sResult[1].errors] # <<>>
    /\ sClosed[1] # {}
    /\ sPc[2] = "navigating"
    /\ sBrowser[2] \in openBrowsers
    /\ \A b \in sLaunched[1] : sBrowser[2] < b
    /\ heap[sErrors[2]] # <<>>
    /\ heap[sWarnings[2]] # <<>>

----------------------------------------------------------------------------
\* Properties of the fixer: inputs and order of calls

\* The messages of the errors of a fix request
Messages == {e.message : e \in ErrorPool}

\* The lists of errors that agree with es on every source.file, with any
\* of the messages.
SameSources(es) ==
    {[i \in 1..Len(es) |-> FixError(es[i].file, ms[i])] :
        ms \in [1..Len(es) -> Messages]}

\* The working set written from focusFiles and the source files alone.
FromSources(focus, es) ==
    LET files == [i \in 1..Len(es) |-> es[i].file]
        RECURSIVE Add(_, _)
        Add(q, fs) ==
            IF fs = <<>> THEN q
            ELSE IF Head(fs) \in {{}, {<<>>}} THEN Add(q, Tail(fs))
            ELSE Add(SetAdd(q, Normalize(CHOOSE f \in Head(fs) : TRUE)),
                     Tail(fs))
    IN  Add(SetAddAll(SetAddAll(<<>>, focus), AlwaysRelevant), files)

\* C21: the working set of a call of fixRuntimeErrors is decided by the
\* focus files and the errors' source files alone: errors that differ only in
\* their message text give the same set, the reads follow the set's order,
\* and nothing of an earlier call is in it.
C21_WorkingSetFromSourcesOnly ==
    /\ []((fxPc = "reading" /\ reads = <<>>) =>
            /\ relevantFiles = FromSources(fxBody.focusFiles, BodyErrors)
            /\ \A fs \in SameSources(BodyErrors) :
                   ResolveFiles(fs, fxBody.focusFiles) = relevantFiles)
    /\ [][fxPc # "post" => relevantFiles' = relevantFiles]_vars
    /\ [](FixCalled =>
            /\ IsPrefix(reads, relevantFiles)
            /\ ReadsDone => reads = relevantFiles)

\* The second of two requests names Header.jsx in its message only: its set
\* is the four files every call reads, and each was read in turn.
C21_Witness ==
    /\ fxCalls = 2
    /\ fxPc = "generating"
    /\ \E i \in 1..Len(BodyErrors) :
           /\ FileMatch(BodyErrors[i].message) = {<<"Header", ".", "jsx">>}
           /\ BodyErrors[i].file = {}
    /\ relevantFiles = AlwaysRelevant
    /\ reads = relevantFiles

\* C22: a call of fixRuntimeErrors invokes the generation once, and only
\* when every path of the working set has been read or has failed to be
\* read; a failed generation leaves fixRuntimeErrors as its error, with no
\* second invocation.
C22_GenerationOnceAfterReads ==
    /\ genCalls <= 1
    /\ genCalls = 1 =>
           /\ reads = relevantFiles
           /\ Range(reads) = Range(fileContexts) \cup readFailed
    /\ fxPc \in {"generating", "returned", "thrown"} => genCalls = 1
    /\ fxPc = "thrown" => fxFault = "generation failed"
    /\ (fxResponse.kind = "error" /\ fxResponse.status = 500) =>
           /\ fxResponse.error = "generation failed"
           /\ genCalls = 1

\* The generation failed after a read had failed: one invocation, and the
\* route answers with its error.
C22_Witness ==
    /\ fxPc = "responded"
    /\ fxResponse = FixErrorResponse(500, "generation failed")
    /\ genCalls = 1
    /\ readFailed # {}
    /\ Len(reads) = 5

\* The fix request lacks its sandboxId or its errors, or its errors list is
\* empty.
FixBodyInvalid ==
    fxBody.sandboxId = "" \/ fxBody.errors = {} \/ fxBody.errors = {<<>>}

\* C23: a fix request without sandboxId, without errors or with an empty
\* errors list is answered with the validation failure whatever the provider
\* lookup would give, and no file is read and no generation invoked for it.
C23_FixValidation ==
    (fxPc # "idle" /\ FixBodyInvalid) =>
        /\ fxPc \in {"post", "responded"}
        /\ fxPc = "responded" =>
               fxResponse
                   = FixErrorResponse(400, "Missing sandboxId or errors")
        /\ reads = <<>>
        /\ fileContexts = <<>>
        /\ readFailed = {}
        /\ genCalls = 0
        /\ fxCalls = 1 => relevantFiles = <<>>

\* A request with a sandboxId and an empty errors list, for a sandbox that
\* has no provider, was answered with the validation failure.
C23_Witness ==
    /\ fxPc = "responded"
    /\ fxBody.sandboxId # ""
    /\ fxBody.errors = {<<>>}
    /\ ~fxProvider
    /\ fxResponse.status = 400

----------------------------------------------------------------------------
\* Properties of the source location of an entry

\* src is what the two ordered attempts give for text t: the file, line and
\* column of a parenthesized location when t has one; else the file and line
\* of a bare script file and line when t has one; else nothing.
SourceAsOrdered(src, t) ==
    IF FullMatches(t) # {}
    THEN \E m \in FullMatches(t) :
             src = {[file |-> SubSeq(t, m[1] + 1, m[2]),
                     line |-> {ParseInt(t[m[2] + 2])},
                     column |-> {ParseInt(t[m[2] + 4])}]}
    ELSE IF LooseMatches(t) # {}
    THEN \E m \in LooseMatches(t) :
             src = {[file |-> SubSeq(t, m[1], m[2]),
                     line |-> {ParseInt(t[m[2] + 2])},
                     column |-> {}]}
    ELSE src = {}

\* The entries of sequence q that carry a source have type console-error or
\* exception.
SourceOnlyWhereParsed(q) ==
    \A i \in 1..Len(q) :
        q[i].source # {} => q[i].type \in {"console-error", "exception"}

\* C26: the source of a console-error entry is extracted from the message,
\* that of an exception entry from the stack, or from the message when there
\* is no stack: the parenthesized file:line:column first, the bare
\* file:line only when that fails, nothing when both fail.  No entry of
\* another type, from a listener or synthesized, carries a source.
C26_SourceExtraction ==
    /\ parsePc = "handled" =>
           \A entry \in Range(parseOut.e \o parseOut.w) :
               CASE entry.type = "console-error" ->
                        SourceAsOrdered(entry.source, parseSig.text)
                 [] entry.type = "exception" ->
                        SourceAsOrdered(
                            entry.source,
                            IF parseSig.stack \in {{}, {<<>>}}
                            THEN parseSig.text
                            ELSE CHOOSE t \in parseSig.stack : TRUE)
                 [] OTHER -> entry.source = {}
    /\ SourceOnlyWhereParsed(errors)
    /\ SourceOnlyWhereParsed(warnings)
    /\ SourceOnlyWhereParsed(result.errors)
    /\ SourceOnlyWhereParsed(result.warnings)
    /\ SourceOnlyWhereParsed(response.errors)
    /\ SourceOnlyWhereParsed(response.warnings)

\* A console error whose message has a bare main.js:42 before a
\* parenthesized location: the entry's source is the parenthesized one, with
\* its column.
C26_Witness ==
    /\ parsePc = "handled"
    /\ parseSig.event = "console"
    /\ parseSig.level = "error"
    /\ \E l \in LooseMatches(parseSig.text) :
           \A f \in FullMatches(parseSig.text) : l[2] < f[1]
    /\ FullMatches(parseSig.text) # {}
    /\ Len(parseOut.e) = 1
    /\ parseOut.e[1].source
           = {[file |-> <<"App.jsx">>, line |-> {42}, column |-> {15}]}

----------------------------------------------------------------------------
\* Properties of the entries and of the summary

\* The entries the session holds, returned or answered with.
AllEntries ==
    Range(errors) \cup Range(warnings)
        \cup Range(result.errors) \cup Range(result.warnings)
        \cup Range(response.errors) \cup Range(response.warnings)

\* The monitoring results: what monitorSandbox returned and what the route
\* answered with, the validation answer (which has no lists) left out.
MonitoringResults ==
    (IF result.kind # "none" THEN {result} ELSE {})
        \cup (IF response.kind \in {"success", "navFailure", "envelope"}
              THEN {response} ELSE {})

NetworkTypes == {"network-404", "network-500", "network-other"}

\* C24: the content check, made only after a successful navigation, appends
\* one warning of type console-warning and severity warning when it returns
\* false or throws and nothing when it returns true; a result whose errors
\* list is empty has hasErrors false, whatever its warnings.
C24_EmptyRootWarning ==
    /\ [][(pc = "evaluate" /\ pc' # pc) =>
            /\ errors' = errors
            /\ IF evalOutcome' = "true"
               THEN warnings' = warnings
               ELSE /\ evalOutcome' \in {"false", "threw"}
                    /\ Len(warnings') = Len(warnings) + 1
                    /\ SubSeq(warnings', 1, Len(warnings)) = warnings
                    /\ warnings'[Len(warnings')].type = "console-warning"
                    /\ warnings'[Len(warnings')].severity = "warning"]_vars
    /\ [](evalOutcome # "none" => navOutcome = "ok")
    /\ [](\A r \in MonitoringResults :
              (r.kind = "success" /\ r.errors = <<>>) => ~r.hasErrors)

\* The content check threw in a session with no signal: the result has the
\* one warning, no error, and hasErrors false.
C24_Witness ==
    /\ pc = "returned"
    /\ evalOutcome = "threw"
    /\ nSig = 0
    /\ result.errors = <<>>
    /\ Len(result.warnings) = 1
    /\ result.warnings[1].type = "console-warning"
    /\ ~result.hasErrors

\* C25: an entry has a stack only if it is an exception, a url or a
\* statusCode only if its type is a network type; a network-404 entry has
\* statusCode 404 and a network-500 entry a statusCode of 500 or more.
C25_OptionalFields ==
    \A e \in AllEntries :
        /\ e.stack # {} => e.type = "exception"
        /\ e.url # {} => e.type \in NetworkTypes
        /\ e.statusCode # {} => e.type \in NetworkTypes
        /\ e.type = "network-404" => e.statusCode = {404}
        /\ e.type = "network-500" =>
               e.statusCode # {} /\ \A c \in e.statusCode : c >= 500

\* The result holds a network-500 entry of status 503 and an exception with
\* its stack.
C25_Witness ==
    /\ pc = "returned"
    /\ \E e \in Range(result.errors) :
           e.type = "network-500" /\ e.statusCode = {503}
    /\ \E e \in Range(result.errors) :
           e.type = "exception" /\ e.stack # {}

\* C27: in every monitoring result the errors list holds entries of
\* severity critical or error only, the warnings list entries of severity
\* warning only, and hasErrors is true exactly when the errors list is not
\* empty.
C27_ListsBySeverity ==
    \A r \in MonitoringResults :
        /\ \A e \in Range(r.errors) : e.severity \in {"critical", "error"}
        /\ \A e \in Range(r.warnings) : e.severity = "warning"
        /\ r.hasErrors <=> r.errors # <<>>

\* The route answered with a result that has an error and a warning.
C27_Witness ==
    /\ pc = "responded"
    /\ response.kind = "success"
    /\ response.hasErrors
    /\ Len(response.errors) = 1
    /\ Len(response.warnings) >= 1

\* C28: the category counts of a summary count the entries of the errors
\* list by type, the warnings list not being counted: their sum is the
\* length of the errors list, which is at most totalErrors.
C28_CategoryCounts ==
    \A r \in MonitoringResults :
        LET n(types) ==
                Cardinality({i \in 1..Len(r.errors) :
                                r.errors[i].type \in types})
        IN  /\ r.summary.consoleErrors
                   = n({"console-error", "console-warning"})
            /\ r.summary.networkErrors = n(NetworkTypes)
            /\ r.summary.exceptions = n({"exception"})
            /\ r.summary.consoleErrors + r.summary.networkErrors
                   + r.summary.exceptions = Len(r.errors)
            /\ Len(r.errors) <= r.summary.totalErrors

\* A result with one error and two warnings, a console warning and a
\* network-other one: the counts add up to 1 and the total is 3.
C28_Witness ==
    /\ pc = "returned"
    /\ result.kind = "success"
    /\ Len(result.errors) = 1
    /\ \E w \in Range(result.warnings) : w.type = "network-other"
    /\ \E w \in Range(result.warnings) : w.type = "console-warning"
    /\ result.summary.totalErrors = 3
    /\ result.summary.consoleErrors + result.summary.networkErrors
           + result.summary.exceptions = 1

\* Type t is excluded by the allow-list the session runs with.
Excluded(t) == errorTypes # {} /\ t \notin errorTypes

\* The signal is of one of the three kinds whose own type the allow-list
\* excludes.
OwnTypeExcluded(sig) ==
    \/ sig.event = "response" /\ sig.status = 404 /\ Excluded("network-404")
    \/ sig.event = "response" /\ sig.status >= 500 /\ Excluded("network-500")
    \/ sig.event = "console" /\ sig.level = "error"
           /\ Excluded("console-error")

\* C29: a 404 response with network-404 excluded, a response of status 500
\* or more with network-500 excluded, and a console error with console-error
\* excluded append nothing to errors and nothing to warnings.
C29_ExcludedSignalDropped ==
    [][(nSig' # nSig /\ OwnTypeExcluded(lastSig')) =>
           errors' = errors /\ warnings' = warnings]_vars

\* A 404 response reached the listeners of a session whose allow-list has
\* console-error and exception only, and nothing was recorded.
C29_Witness ==
    /\ errorTypes = {"console-error", "exception"}
    /\ nSig = 1
    /\ lost = 0
    /\ lastSig.event = "response"
    /\ lastSig.status = 404
    /\ errors = <<>>
    /\ warnings = <<>>

\* C30: when the browser.close() that follows the content check fails, no
\* result is returned: close is called a second time, in the catch, and the
\* route answers with the fault envelope, its lists empty, whatever the
\* session had collected.
C30_CloseFailureOnSuccessPath ==
    (fault = "close failed" /\ navOutcome = "ok") =>
        /\ evalOutcome # "none"
        /\ result.kind = "none"
        /\ closeCalls = 2
        /\ pc \in {"catchClose", "thrown", "responded"}
        /\ pc = "responded" =>
               /\ response.kind = "envelope"
               /\ response.status = 500
               /\ ~response.success
               /\ response.errors = <<>>
               /\ response.warnings = <<>>
               /\ response.summary = ZeroSummary
               /\ response.monitoringError = {"close failed"}

\* The session had collected an error and a warning when its close failed:
\* the answer is the envelope without them.
C30_Witness ==
    /\ pc = "responded"
    /\ fault = "close failed"
    /\ navOutcome = "ok"
    /\ Len(errors) >= 1
    /\ Len(warnings) >= 1
    /\ response.kind = "envelope"
    /\ response.errors = <<>>

----------------------------------------------------------------------------
\* Properties of the fixer: reads of one invocation

\* q without the later occurrences of its values.
FirstOccurrences(q) ==
    LET keep == {i \in 1..Len(q) : \A j \in 1..(i - 1) : q[j] # q[i]}
        RECURSIVE From(_)
        From(i) == IF i > Len(q) THEN <<>>
                   ELSE IF i \in keep THEN <<q[i]>> \o From(i + 1)
                   ELSE From(i + 1)
    IN  From(1)

\* The normalized source files of es, in the order of es.
ErrorPaths(es) ==
    LET RECURSIVE From(_)
        From(i) == IF i > Len(es) THEN <<>>
                   ELSE IF HasSourceFile(es[i])
                   THEN <<Normalize(CHOOSE f \in es[i].file : TRUE)>>
                            \o From(i + 1)
                   ELSE From(i + 1)
    IN  From(1)

\* The paths named to a call, in the order they are named: the focus
\* files, the always-relevant files, the errors' paths.
NamedPaths == fxBody.focusFiles \o AlwaysRelevant \o ErrorPaths(BodyErrors)

\* The number of times p is named to the call.
TimesNamed(p) == Cardinality({i \in 1..Len(NamedPaths) : NamedPaths[i] = p})

\* C31: in one call of fixRuntimeErrors no path is read twice, however many
\* times the focus files, the always-relevant files and the errors name it;
\* the reads are made one after the other, in the order the paths were first
\* named: focus files, then always-relevant files, then the errors' paths in
\* the order of the errors.
C31_ReadOnceInInsertionOrder ==
    /\ [](FixCalled =>
            LET named == FirstOccurrences(NamedPaths)
            IN  /\ \A i, j \in 1..Len(reads) : reads[i] = reads[j] => i = j
                /\ IsPrefix(reads, named)
                /\ ReadsDone => reads = named)
    /\ [][(fxPc = "reading" /\ reads' # reads) =>
             /\ Len(reads') = Len(reads) + 1
             /\ IsPrefix(reads, reads')]_vars

\* src/main.jsx is a focus file, an always-relevant file and the source of
\* two errors, and the read loop is over: it was read once, first.
C31_Witness ==
    /\ fxPc = "generating"
    /\ TimesNamed(<<"src", "/", "main", ".", "jsx">>) = 4
    /\ Len(BodyErrors) = 2
    /\ reads = << <<"src", "/", "main", ".", "jsx">>,
                  <<"package", ".", "json">>,
                  <<"index", ".", "html">>,
                  <<"src", "/", "index", ".", "css">> >>

----------------------------------------------------------------------------
\* Properties of the fix route: the provider lookup

\* C32: a fix request that has a sandboxId and a non-empty errors list, for
\* a sandbox with no registered provider, is answered with the not-found
\* error payload, and fixRuntimeErrors is not called for it: no file is
\* read and no generation is invoked.
C32_ProviderNotFound ==
    (fxPc # "idle" /\ ~FixBodyInvalid /\ ~fxProvider) =>
        /\ fxPc \in {"post", "responded"}
        /\ fxPc = "responded" =>
               fxResponse
                   = FixErrorResponse(404, "Sandbox provider not found")
        /\ reads = <<>>
        /\ fileContexts = <<>>
        /\ readFailed = {}
        /\ genCalls = 0
        /\ fxCalls = 1 => relevantFiles = <<>>

\* The second of two requests, valid like the first that was carried out,
\* found no provider and was answered with the not-found payload.
C32_Witness ==
    /\ fxCalls = 2
    /\ fxPc = "responded"
    /\ ~FixBodyInvalid
    /\ ~fxProvider
    /\ relevantFiles # <<>>
    /\ fxResponse.status = 404
    /\ reads = <<>>

====
